---- MODULE Spec2Model ----
(***************************************************************************)
(* A model of the message-driven IPO application flow of nepal-ipo-bot:    *)
(* process_telegram_message (main.py) and the broker client it drives      *)
(* (api.py: login, get_applicable_issues, find_applicable_issue_by_company,*)
(* get_user_details, get_bank_ids, get_reserved_quantity,                  *)
(* get_account_details, apply_ipo).                                        *)
(*                                                                         *)
(* Every broker call is one step of a request.  The broker's answers are   *)
(* the environment: each action takes the set of answers it may receive.   *)
(* The process-wide token cdsc_token (api.py:9) is the only state shared   *)
(* by requests.                                                            *)
(***************************************************************************)
EXTENDS Integers, Sequences, FiniteSets, TLC

VARIABLES
    cdsc_token,         \* api.py:9, the module-level token
    pc,                 \* where each request stands
    entry,              \* the entry point that took the request
    msg,                \* result of extract_person_company_and_kitta
    user_row,           \* the directory row of the person
    token,              \* what login() returned to the handler
    selected_issue,     \* the issue found for the company, or NoIssue; in
                        \* the loops of main.py:246 and 378, the issue at hand
    attempt,            \* main.py:218, 350: the pass of the login loop
    applicable_issues,  \* main.py:238, 370: the list the handler goes through
    issue_idx,          \* main.py:246, 378: position of the loop over the list
    applied_issues,     \* main.py:241, 373
    failed_issues,      \* main.py:242, 374
    share_type_name,    \* apply_ipo: the parameter of that name
    user_details,       \* apply_ipo: result of get_user_details()
    headers,            \* apply_ipo: Authorization of get_auth_headers() at line 544
    bank_ids,           \* apply_ipo: result of get_bank_ids()
    idx,                \* apply_ipo: position of the loop over bank_ids
    applied_kitta,      \* apply_ipo: quantity to submit
    share_criteria_id,  \* apply_ipo: id of the reserved lookup, or None
    login_response,     \* history: the broker's answers to the logins
    listing_response,   \* history: the broker's answer to the issue listing:
                        \* its status, the length of the list and the entry
                        \* for the company of the message
    reserved_response,  \* history: the broker's answer to the reserved lookup
    calls,              \* history: broker calls made by the request, in order
    accepted,           \* history: places in calls of the submissions that
                        \* came back with a success status
    ipo_result,         \* what apply_ipo returned, or the exception it raised
    sent,               \* history: notifications sent to the chat, in order
    result,             \* the status the handler returned
    telegram,           \* the environment: how the Telegram API answers
    \* get_applicable_issues and find_applicable_issue_by_company on their own
    listing_pc,         \* where the run of the two functions stands
    response_data,      \* api.py:188, the parsed body
    raw_issues,         \* api.py:196-214, the candidates
    issue_at,           \* api.py:222, position of the loop over raw_issues
    filtered_issues,    \* api.py:220
    returned_issues,    \* what get_applicable_issues returned
    first_issues,       \* what it returned before it was run on that value
    company_query,      \* api.py:271, the company_name that was looked for
    found_issue,        \* what find_applicable_issue_by_company returned
    \* fuzzy_match on its own
    fuzzy_pc,           \* where the run of fuzzy_match stands
    name,               \* parser.py:5, the text to match
    candidates,         \* parser.py:5
    candidate_at,       \* parser.py:12, position of the loop over candidates
    best_match,         \* parser.py:9
    best_score,         \* parser.py:10
    matched,            \* what fuzzy_match returned
    \* FloorsheetFetcher
    fetch_pc,           \* where fetch_floorsheet_data_with_retry stands
    retry_delay,        \* floorsheet_fetcher.py:53, self.retry_delay
    fetch_attempt,      \* floorsheet_fetcher.py:124, attempt
    waits,              \* history: the sleeps of the call, in seconds
    fetched,            \* history: how the calls so far ended
    \* extract_person_company_and_kitta on its own
    parse_pc,           \* where the run of the extractor stands
    received,           \* history: the message as it was passed in
    text_msg,           \* parser.py:35, 68: msg
    known_people,       \* parser.py:25
    kitta,              \* parser.py:60
    person,             \* parser.py:58
    company,            \* parser.py:59
    template,           \* history: the place in patterns of the template
                        \* that set person and company, or 0
    word_by_word,       \* history: the loop of parser.py:89 was entered
    extracted           \* what the extractor returned

\* the state of the loops of apply_all_issues and apply_all_issues_get
bulk == << attempt, applicable_issues, issue_idx, applied_issues, failed_issues >>

\* the state of the handlers
flow == << cdsc_token, pc, entry, msg, user_row, token, selected_issue, bulk,
           share_type_name, user_details, headers, bank_ids, idx, applied_kitta,
           share_criteria_id, login_response, listing_response,
           reserved_response, calls, accepted, ipo_result, sent, result,
           telegram >>

\* the state of the runs of single functions
listing == << listing_pc, response_data, raw_issues, issue_at, filtered_issues,
              returned_issues, first_issues, company_query, found_issue >>

fuzzy == << fuzzy_pc, name, candidates, candidate_at, best_match, best_score,
            matched >>

fetcher == << fetch_pc, retry_delay, fetch_attempt, waits, fetched >>

parsing == << parse_pc, received, text_msg, known_people, kitta, person,
              company, template, word_by_word, extracted >>

pure == << listing, fuzzy, fetcher, parsing >>

vars == << flow, pure >>

----------------------------------------------------------------------------
(* Bounds *)

MaxBanks == 3          \* longest list of bank ids the broker returns
MaxListing == 2        \* longest raw issue listing the broker returns

Req == {1, 2}          \* request slots

None == "None"         \* Python's None

----------------------------------------------------------------------------
(* Text.  A text is a sequence of characters, so that lowercasing and     *)
(* substring search are computed, not assumed.                            *)

LowerChar(c) ==
    CASE c = "A" -> "a"
      [] c = "B" -> "b"
      [] c = "X" -> "x"
      [] OTHER -> c

Lower(s) == [k \in 1..Len(s) |-> LowerChar(s[k])]

\* Python's `sub in s` for strings
Contains(sub, s) ==
    \E k \in 0..(Len(s) - Len(sub)) : SubSeq(s, k + 1, k + Len(sub)) = sub

\* Python's str() on the numbers the broker sends
Str(n) ==
    CASE n = 0 -> "0"
      [] n = 50 -> "50"
      [] n = 7 -> "7"
      [] n = 8 -> "8"
      [] OTHER -> "n"

Missing == -1          \* a field the response does not have

\* no reserved lookup was made
NoResponse == [status |-> "none", reservedQuantity |-> Missing, id |-> Missing]

\* Python truthiness of an optional string
Truthy(s) == s # None /\ s # ""

----------------------------------------------------------------------------
(* The directory (sheets.py) and the messages *)

\* names of the directory rows, lowercased as main.py:52 does
People == {"nene", "kaka"}

\* the appliedKitta cell of a row: None when the sheet has no such column,
\* "" when the cell is empty (sheets.py:32)
SheetKittas == {None, "", "20"}

\* company references a message can carry
Queries == { <<"a", "b">>, <<"x">> }

\* Results of extract_person_company_and_kitta: person is None or a known
\* person (parser.py:78-80, 95-97), company is set only with a person
\* (parser.py:81, 101), kitta is None or the digits before "kitta"
Intents ==
    { [person |-> None, company |-> <<>>, kitta |-> k] : k \in {None, "5"} }
    \cup
    { [person |-> p, company |-> c, kitta |-> k] :
        p \in People, c \in Queries \cup {<<>>}, k \in {None, "5"} }

\* the company of an intent is absent (parser.py:116-117)
NoCompany(m) == m.company = <<>>

\* Undetected testing the person alone
UndetectedPerson(m) == m.person = None

\* main.py:59, `if not person or not company`
Undetected(m) == m.person = None \/ NoCompany(m)

\* the token the broker issues to a person
TokenOf(p) == IF p = "nene" THEN "T_nene" ELSE "T_kaka"

NoRow == [name |-> None, appliedKitta |-> None]

----------------------------------------------------------------------------
(* Issues *)

\* An element of a listing.  mapping: the element is a JSON object; a field
\* that the object does not have is None, which is what .get() gives for it
\* (for the texts scrip and companyName: the empty text, api.py:308-309).
Issue(scrip, cname, group, status, type, action, id) ==
    [mapping |-> TRUE, scrip |-> scrip, companyName |-> cname,
     shareGroupName |-> group, statusName |-> status, shareTypeName |-> type,
     action |-> action, companyShareId |-> id]

NoIssue == Issue(<<>>, <<>>, None, None, None, None, 0)

IssueAB == Issue(<<"A", "B">>, <<"A", "b", "c">>, "Ordinary Shares",
                 "CREATE_APPROVE", "IPO", "edit", 11)
IssueX == Issue(<<"X">>, <<"X", "c">>, "Ordinary Shares",
                "CREATE_APPROVE", "RESERVED", "edit", 12)
IssueABApplied == Issue(<<"A", "B">>, <<"A", "b", "c">>, "Ordinary Shares",
                        "CREATE_APPROVE", "IPO", "inProcess", 11)
IssueXClosed == Issue(<<"X">>, <<"X", "c">>, "Ordinary Shares",
                      "CREATE_CLOSE", "RESERVED", "edit", 12)

IssuePool == {IssueAB, IssueX, IssueABApplied, IssueXClosed}

\* sequences over S of length at most n
SeqUpTo(S, n) == UNION { [1..k -> S] : k \in 0..n }

\* the raw listings the broker may answer with (the list under "object")
Listings == SeqUpTo(IssuePool, MaxListing)

\* Eligible without the test of api.py:245-248
EligibleWhateverAction(issue) ==
    /\ issue.mapping
    /\ issue.shareGroupName = "Ordinary Shares"
    /\ issue.statusName = "CREATE_APPROVE"
    /\ issue.shareTypeName \in {"IPO", "FPO", "RESERVED"}

\* api.py:224-248, the tests an element has to pass
Eligible(issue) ==
    /\ issue.mapping
    /\ issue.shareGroupName = "Ordinary Shares"
    /\ issue.statusName = "CREATE_APPROVE"
    /\ issue.shareTypeName \in {"IPO", "FPO", "RESERVED"}
    /\ issue.action # "inProcess"

\* api.py:219-254
FilterIssues(elems) == SelectSeq(elems, Eligible)

\* MatchesCompany with containment in either direction
MatchesEitherWay(issue, search_company) ==
    \/ Contains(search_company, Lower(issue.scrip))
    \/ Contains(search_company, Lower(issue.companyName))
    \/ Contains(Lower(issue.scrip), search_company)
    \/ Contains(Lower(issue.companyName), search_company)

\* api.py:308-312
MatchesCompany(issue, search_company) ==
    \/ Contains(search_company, Lower(issue.scrip))
    \/ Contains(search_company, Lower(issue.companyName))

\* FindApplicableIssueByCompany falling back to the first issue of the list
FindApplicableIssueOrFirst(issues, company_name) ==
    LET search_company == Lower(company_name)
        hits == { k \in 1..Len(issues) : MatchesCompany(issues[k], search_company) }
    IN  IF issues = <<>> THEN NoIssue
        ELSE IF hits = {} THEN issues[1]
        ELSE issues[CHOOSE k \in hits : \A j \in hits : k <= j]

\* api.py:298-317: the first issue of the list that matches, or None
FindApplicableIssueByCompany(issues, company_name) ==
    LET search_company == Lower(company_name)
        hits == { k \in 1..Len(issues) : MatchesCompany(issues[k], search_company) }
    IN  IF hits = {} THEN NoIssue
        ELSE issues[CHOOSE k \in hits : \A j \in hits : k <= j]

\* what is kept of an answer to the listing call: the first entry of the
\* raw list that is for the company, whatever its state
Reported(ans, company_name) ==
    [status |-> ans.status, size |-> Len(ans.body),
     issue |-> FindApplicableIssueByCompany(ans.body, company_name)]

\* no issue listing was asked for
NoListing == [status |-> "none", size |-> 0, issue |-> NoIssue]

----------------------------------------------------------------------------
(* JSON values, as far as get_applicable_issues tells them apart: an       *)
(* object with its keys, an array with its elements, or a scalar.           *)

Json(kind, elems, keys) == [kind |-> kind, elems |-> elems, keys |-> keys]

JsonNull == Json("null", <<>>, <<>>)
JsonArray(elems) == Json("array", elems, <<>>)
JsonObject(keys) == Json("object", <<>>, keys)

----------------------------------------------------------------------------
(* What apply_ipo hands back *)

NoResult == [kind |-> "none", bank |-> None, attempt |-> 0, text |-> {}, cause |-> None]

\* api.py:628, the parsed body of the accepted submission
Receipt(bank, nth) ==
    [kind |-> "returned", bank |-> bank, attempt |-> nth, text |-> {}, cause |-> None]

\* an exception leaving apply_ipo: its text, and for the aggregate error of
\* api.py:640 the attempt it reports
Raised(text, bank, nth, cause) ==
    [kind |-> "raised", bank |-> bank, attempt |-> nth, text |-> text, cause |-> cause]

----------------------------------------------------------------------------
(* Errors.  An exception is the set of the phrases, among those the        *)
(* handlers of main.py search for, that occur in its lowercased text.      *)

\* str.lower() of the phrases main.py searches for
LowerPhrase(s) == IF s = "all bank IDs" THEN "all bank ids" ELSE s

\* `needle in error_str` with error_str = str(e).lower(): a needle that is
\* not its own lowercase occurs in no lowercased text
InLower(needle, e) == needle = LowerPhrase(needle) /\ needle \in e

\* api.py:137 wraps whatever login raised
AuthenticationFailed(inner) == {"authentication failed"} \cup inner

\* api.py:96 "Password expired for user. ..."
PasswordExpiredText == {"password expired"}
\* api.py:102 "Account expired for user. ..."
AccountExpiredText == {"account expired"}
\* api.py:108 "Demat account expired for user. ..."
DematExpiredText == {"account expired"}
\* requests: "401 Client Error: Unauthorized for url: ..."
HttpErrorText == {}
\* requests: "... Read timed out. (read timeout=30)"
TimeoutText == {"timeout"}
\* api.py:163 "Not authenticated. Please login first."
NotAuthenticatedText == {}

TransportText(kind) == IF kind = "timeout" THEN TimeoutText ELSE HttpErrorText

\* main.py:132-151, the message chosen for an exception of the outer try
OuterMessage(e) ==
    IF InLower("authentication failed", e) \/ InLower("login failed", e)
        THEN "auth_failed"
    ELSE IF InLower("password expired", e) THEN "password_expired"
    ELSE IF InLower("account expired", e) THEN "account_expired"
    ELSE IF InLower("demat expired", e) THEN "demat_expired"
    ELSE IF InLower("connection failed", e) \/ InLower("timeout", e)
        THEN "connection_error"
    ELSE "processing_error"

\* main.py:107-130, the message chosen for an exception of apply_ipo
InnerMessage(e) ==
    IF InLower("all bank IDs", e) \/ InLower("no bank ids available", e)
        THEN "all_banks_failed"
    ELSE IF InLower("invalid crn", e) THEN "invalid_crn"
    ELSE IF InLower("connection failed", e) \/ InLower("timeout", e)
        THEN "connection_error"
    ELSE "apply_error"

----------------------------------------------------------------------------
(* State after construction: no request in flight, no token *)

InitHandlers ==
    /\ cdsc_token = None
    /\ pc = [r \in Req |-> "idle"]
    /\ entry = [r \in Req |-> None]
    /\ attempt = [r \in Req |-> 0]
    /\ applicable_issues = [r \in Req |-> <<>>]
    /\ issue_idx = [r \in Req |-> 0]
    /\ applied_issues = [r \in Req |-> <<>>]
    /\ failed_issues = [r \in Req |-> <<>>]
    /\ share_type_name = [r \in Req |-> None]
    /\ msg = [r \in Req |-> [person |-> None, company |-> <<>>, kitta |-> None]]
    /\ user_row = [r \in Req |-> NoRow]
    /\ token = [r \in Req |-> None]
    /\ selected_issue = [r \in Req |-> NoIssue]
    /\ user_details = [r \in Req |-> [demat |-> ""]]
    /\ headers = [r \in Req |-> None]
    /\ bank_ids = [r \in Req |-> <<>>]
    /\ idx = [r \in Req |-> 0]
    /\ applied_kitta = [r \in Req |-> None]
    /\ share_criteria_id = [r \in Req |-> None]
    /\ login_response = [r \in Req |-> <<>>]
    /\ listing_response = [r \in Req |-> NoListing]
    /\ reserved_response = [r \in Req |-> NoResponse]
    /\ calls = [r \in Req |-> <<>>]
    /\ accepted = [r \in Req |-> <<>>]
    /\ ipo_result = [r \in Req |-> NoResult]
    /\ sent = [r \in Req |-> <<>>]
    /\ result = [r \in Req |-> None]

\* the Telegram API delivers
InitFlow ==
    /\ InitHandlers
    /\ telegram = "ok"

\* no function is run on its own
InitListing ==
    /\ listing_pc = "off"
    /\ response_data = JsonNull
    /\ raw_issues = JsonNull
    /\ issue_at = 0
    /\ filtered_issues = <<>>
    /\ returned_issues = JsonNull
    /\ first_issues = JsonNull
    /\ company_query = <<>>
    /\ found_issue = NoIssue

\* an optional text: None, or the text
NoText == [some |-> FALSE, text |-> <<>>]
Some(t) == [some |-> TRUE, text |-> t]

\* a score is a fraction; parser.py:10, the 0 that best_score starts with
Zero == [num |-> 0, den |-> 1]

InitFuzzy ==
    /\ fuzzy_pc = "off"
    /\ name = <<>>
    /\ candidates = <<>>
    /\ candidate_at = 0
    /\ best_match = NoText
    /\ best_score = Zero
    /\ matched = NoText

\* floorsheet_fetcher.py:40-53
InitFetcher ==
    /\ fetch_pc = "idle"
    /\ retry_delay = 2
    /\ fetch_attempt = 0
    /\ waits = <<>>
    /\ fetched = <<>>

\* what the extractor returns: each field is None or a text
NoExtract == [person |-> NoText, company |-> NoText, kitta |-> NoText]

\* the extractor is not run on its own
InitParsing ==
    /\ parse_pc = "off"
    /\ received = <<>>
    /\ text_msg = <<>>
    /\ known_people = <<>>
    /\ kitta = NoText
    /\ person = NoText
    /\ company = NoText
    /\ template = 0
    /\ word_by_word = FALSE
    /\ extracted = NoExtract

Init ==
    /\ InitFlow
    /\ InitListing
    /\ InitFuzzy
    /\ InitFetcher
    /\ InitParsing

\* Authenticated without the test
AuthenticatedUnchecked == TRUE

\* api.py:162, 323, 358, 412, 487 and 538, `if not cdsc_token: raise`
Authenticated == Truthy(cdsc_token)

\* a broker call as the broker sees it: the operation, the Authorization
\* header, and for the bank calls the bank id, appliedKitta and shareCriteriaId
Call(op, auth, bank, units, scid) ==
    [op |-> op, auth |-> auth, bank |-> bank, kitta |-> units, scid |-> scid]

\* how the Telegram API may answer; no_token: TELEGRAM_BOT_TOKEN is not set
TelegramAnswers == {"ok", "no_token", "http_error", "timeout"}

\* SendTelegramMessage without the try of main.py:157 and 185
SendTelegramMessageUncaught(answer) ==
    [raised |-> answer = "timeout",
     status |-> IF answer = "ok" THEN "success" ELSE "error"]

\* main.py:153-187: what send_telegram_message hands back, and whether it
\* raises
SendTelegramMessage(answer) ==
    [raised |-> FALSE,
     status |-> IF answer = "ok" THEN "success" ELSE "error"]

\* the handler sends one message and returns its status; what
\* send_telegram_message hands back is dropped, and were it to raise, the
\* exception would leave the handler in place of the status
Reply(r, text, status) ==
    /\ sent' = [sent EXCEPT ![r] = Append(@, text)]
    /\ result' = [result EXCEPT ![r] =
          IF SendTelegramMessage(telegram).raised THEN "raised" ELSE status]
    /\ pc' = [pc EXCEPT ![r] = "done"]

----------------------------------------------------------------------------
(* process_telegram_message, main.py:47-151 *)

\* main.py:51-74: read the directory, extract the intent, find the row.
\* serial: the event loop runs one handler to completion before the next.
Receive(r, intents, cells, serial) ==
    /\ pc[r] = "idle"
    /\ serial => \A q \in Req : pc[q] = "idle"
    /\ \E m \in intents, cell \in cells :
        LET row == IF m.person \in People
                       THEN [name |-> m.person, appliedKitta |-> cell]
                       ELSE NoRow
        IN  /\ msg' = [msg EXCEPT ![r] = m]
            /\ entry' = [entry EXCEPT ![r] = "telegram"]
            /\ IF Undetected(m)
                  THEN /\ Reply(r, "format_hint", "error")
                       /\ UNCHANGED user_row
               ELSE IF row = NoRow
                  THEN /\ Reply(r, "no_info", "error")
                       /\ UNCHANGED user_row
               ELSE /\ user_row' = [user_row EXCEPT ![r] = row]
                    /\ pc' = [pc EXCEPT ![r] = "login"]
                    /\ UNCHANGED << sent, result >>
    /\ UNCHANGED << pure, telegram >>
    /\ UNCHANGED << cdsc_token, token, selected_issue, bulk, share_type_name,
                    user_details, headers, bank_ids, idx, applied_kitta,
                    share_criteria_id, login_response, listing_response,
                    reserved_response, calls, accepted, ipo_result >>

\* unauthorized: the 401 of wrong credentials; http_error: a 5xx
LoginAnswers ==
    {"bearer", "no_header", "passwordExpired", "accountExpired",
     "dematExpired", "unauthorized", "http_error", "timeout"}

\* what login raises on an answer, api.py:94-110, 123-137
LoginError(ans) ==
    AuthenticationFailed(
        CASE ans = "passwordExpired" -> PasswordExpiredText
          [] ans = "accountExpired" -> AccountExpiredText
          [] ans = "dematExpired" -> DematExpiredText
          [] ans = "timeout" -> TimeoutText
          [] OTHER -> HttpErrorText)

\* main.py:77 with api.py:61-137
Login(r, answers) ==
    /\ pc[r] = "login"
    /\ \E ans \in answers :
        /\ calls' = [calls EXCEPT ![r] =
              Append(@, Call("login", "null", None, None, None))]
        /\ login_response' = [login_response EXCEPT ![r] = Append(@, ans)]
        /\ IF ans \in {"bearer", "no_header"}
              THEN LET t == IF ans = "bearer" THEN TokenOf(user_row[r].name)
                                              ELSE None
                   IN  /\ cdsc_token' = t
                       /\ token' = [token EXCEPT ![r] = t]
                       /\ pc' = [pc EXCEPT ![r] = "issues"]
                       /\ UNCHANGED << sent, result >>
              ELSE /\ Reply(r, OuterMessage(LoginError(ans)), "error")
                   /\ UNCHANGED << cdsc_token, token >>
    /\ UNCHANGED << pure, telegram >>
    /\ UNCHANGED << entry, msg, user_row, selected_issue, bulk,
                    share_type_name, user_details, headers, bank_ids, idx, applied_kitta, share_criteria_id,
                    listing_response, reserved_response, accepted, ipo_result >>

ListingAnswers ==
    { [status |-> "ok", body |-> l] : l \in Listings }
    \cup { [status |-> st, body |-> <<>>] :
             st \in {"empty_body", "http_error", "timeout", "connection_error"} }

\* ListingCaught with the clause of api.py:256 alone
ListingCaughtRequestOnly(status) ==
    status \in {"http_error", "timeout", "connection_error"}

\* api.py:256-269: the two except clauses of get_applicable_issues, the
\* first for what requests raises, the second for everything else
ListingCaught(status) ==
    \/ status \in {"http_error", "timeout", "connection_error"}
    \/ status \in {"empty_body"}

\* api.py:173-269: the filtered list of an answer; the empty list for an
\* answer that failed
GetApplicableIssues(ans) ==
    IF ans.status = "ok" THEN FilterIssues(ans.body) ELSE <<>>

\* main.py:78-94 with api.py:156-269 and api.py:271-317.  A listing that
\* fails in transport or does not parse is the empty list (api.py:256-269).
GetIssues(r, answers) ==
    /\ pc[r] = "issues"
    /\ IF ~Authenticated
          THEN /\ Reply(r, OuterMessage(NotAuthenticatedText), "error")
               /\ UNCHANGED << calls, selected_issue, listing_response,
                               share_type_name >>
          ELSE \E ans \in answers :
                LET found == FindApplicableIssueByCompany(GetApplicableIssues(ans),
                                                          msg[r].company)
                IN  /\ calls' = [calls EXCEPT ![r] =
                          Append(@, Call("issues", cdsc_token, None, None, None))]
                    /\ listing_response' = [listing_response EXCEPT ![r] =
                          Reported(ans, msg[r].company)]
                    /\ selected_issue' = [selected_issue EXCEPT ![r] = found]
                    /\ share_type_name' = [share_type_name EXCEPT ![r] =
                          found.shareTypeName]
                    /\ IF ans.status # "ok" /\ ~ListingCaught(ans.status)
                          THEN Reply(r, OuterMessage(TransportText(ans.status)),
                                     "error")
                       ELSE IF found = NoIssue
                          THEN Reply(r, "no_issue", "error")
                       ELSE IF found.action = "inProcess"
                          THEN Reply(r, "already_filled", "warning")
                       ELSE /\ pc' = [pc EXCEPT ![r] = "apply"]
                            /\ UNCHANGED << sent, result >>
    /\ UNCHANGED << pure, telegram >>
    /\ UNCHANGED << cdsc_token, entry, msg, user_row, token, bulk, user_details,
                    headers, bank_ids, idx, applied_kitta, share_criteria_id,
                    login_response, reserved_response, accepted, ipo_result >>

----------------------------------------------------------------------------
(* apply_ipo, api.py:534-646, called at main.py:98 *)

\* apply_ipo is left and the loop of main.py:246 or 378 goes on
BackToLoop(r) ==
    /\ pc' = [pc EXCEPT ![r] = "next"]
    /\ UNCHANGED << sent, result >>

\* ApplyRaised without the try of main.py:247 and 379: the exception leaves
\* the loop over the issues
ApplyRaisedLeavesLoop(r, exc) ==
    /\ ipo_result' = [ipo_result EXCEPT ![r] = exc]
    /\ IF entry[r] = "telegram"
          THEN Reply(r, InnerMessage(exc.text), "error")
          ELSE Reply(r, "bulk_error", "error")

\* apply_ipo raised.  main.py:107-130: the message handler reports and
\* returns; main.py:262 and 394: the loop over the issues takes note
ApplyRaised(r, exc) ==
    /\ ipo_result' = [ipo_result EXCEPT ![r] = exc]
    /\ IF entry[r] = "telegram"
          THEN Reply(r, InnerMessage(exc.text), "error")
          ELSE BackToLoop(r)

\* ResolveKitta with the sheet taking precedence over the message
ResolveKittaSheetFirst(message_kitta, sheet_kitta) ==
    IF Truthy(sheet_kitta) THEN sheet_kitta
    ELSE IF Truthy(message_kitta) THEN message_kitta
    ELSE "10"

\* api.py:555-568
ResolveKitta(message_kitta, sheet_kitta) ==
    IF Truthy(message_kitta) THEN message_kitta
    ELSE IF Truthy(sheet_kitta) THEN sheet_kitta
    ELSE "10"

DetailAnswers == {"ok", "empty_body", "http_error", "timeout"}

\* api.py:538-547 with api.py:319-352: the token check, the headers of the
\* submissions, and the own-details call
GetUserDetails(r, answers) ==
    /\ pc[r] = "apply"
    /\ IF ~Authenticated
          THEN /\ ApplyRaised(r, Raised(NotAuthenticatedText, None, 0, None))
               /\ UNCHANGED << calls, headers, user_details >>
          ELSE \E ans \in answers :
                /\ headers' = [headers EXCEPT ![r] = cdsc_token]
                /\ calls' = [calls EXCEPT ![r] =
                      Append(@, Call("own_details", cdsc_token, None, None, None))]
                /\ IF ans \in {"ok", "empty_body"}
                      THEN /\ user_details' = [user_details EXCEPT ![r] =
                                [demat |-> IF ans = "ok" THEN "D" ELSE ""]]
                           /\ pc' = [pc EXCEPT ![r] = "banks"]
                           /\ UNCHANGED << ipo_result, sent, result >>
                      ELSE /\ ApplyRaised(r, Raised(TransportText(ans), None, 0, ans))
                           /\ UNCHANGED user_details
    /\ UNCHANGED << pure, telegram >>
    /\ UNCHANGED << cdsc_token, entry, msg, user_row, token, selected_issue,
                    bulk, share_type_name, bank_ids, idx, applied_kitta, share_criteria_id, login_response,
                    listing_response, reserved_response, accepted >>

\* NoBankIds without the test of api.py:552
NoBankIdsUnchecked(ids) == FALSE

\* api.py:552, `if not bank_ids`
NoBankIds(ids) == ids = <<>>

BankIds == {"b1", "b2"}

BankLists == SeqUpTo(BankIds, MaxBanks)

BankAnswers ==
    { [status |-> "ok", body |-> l] : l \in BankLists }
    \cup { [status |-> st, body |-> <<>>] : st \in {"empty_body", "http_error"} }

\* api.py:572-581: the lookup is made for a RESERVED issue when the demat
\* and the share id are there
WantsReserved(type_name, details, company_share_id) ==
    /\ type_name = "RESERVED"
    /\ Truthy(details.demat)
    /\ company_share_id # 0

\* api.py:550-581 with api.py:354-406: the bank ids, the empty-list check,
\* the quantity
GetBankIds(r, answers) ==
    /\ pc[r] = "banks"
    /\ IF ~Authenticated
          THEN /\ ApplyRaised(r, Raised(NotAuthenticatedText, None, 0, None))
               /\ UNCHANGED << calls, bank_ids, idx, applied_kitta >>
          ELSE \E ans \in answers :
                LET ids == IF ans.status = "ok" THEN ans.body ELSE <<>>
                IN  /\ calls' = [calls EXCEPT ![r] =
                          Append(@, Call("bank_ids", cdsc_token, None, None, None))]
                    /\ IF ans.status \in {"http_error", "timeout"}
                          THEN /\ ApplyRaised(r, Raised(TransportText(ans.status),
                                                        None, 0, ans.status))
                               /\ UNCHANGED << bank_ids, idx, applied_kitta >>
                       ELSE IF NoBankIds(ids)
                          THEN /\ ApplyRaised(r, Raised({"no bank ids available"},
                                                        None, 0, "empty_list"))
                               /\ bank_ids' = [bank_ids EXCEPT ![r] = ids]
                               /\ UNCHANGED << idx, applied_kitta >>
                       ELSE /\ bank_ids' = [bank_ids EXCEPT ![r] = ids]
                            /\ applied_kitta' = [applied_kitta EXCEPT ![r] =
                                  ResolveKitta(msg[r].kitta, user_row[r].appliedKitta)]
                            /\ IF WantsReserved(share_type_name[r],
                                                user_details[r],
                                                selected_issue[r].companyShareId)
                                  THEN /\ pc' = [pc EXCEPT ![r] = "reserved"]
                                       /\ UNCHANGED idx
                                  ELSE /\ pc' = [pc EXCEPT ![r] = "loop"]
                                       /\ idx' = [idx EXCEPT ![r] = 1]
                            /\ UNCHANGED << ipo_result, sent, result >>
    /\ UNCHANGED << pure, telegram >>
    /\ UNCHANGED << cdsc_token, entry, msg, user_row, token, selected_issue,
                    bulk, share_type_name,
                    user_details, headers, share_criteria_id, login_response,
                    listing_response, reserved_response, accepted >>

ReservedAnswers ==
    { [status |-> "ok", reservedQuantity |-> q, id |-> i] :
        q \in {50, Missing}, i \in {7, Missing} }
    \cup { [status |-> st, reservedQuantity |-> Missing, id |-> Missing] :
             st \in {"empty_body", "http_error"} }

\* ReservedFound without the test of api.py:508-509
ReservedFoundWithoutId(ans) ==
    /\ ans.status = "ok"
    /\ ans.reservedQuantity # Missing

\* api.py:503-517: the lookup succeeds when the response has both fields
ReservedFound(ans) ==
    /\ ans.status = "ok"
    /\ ans.reservedQuantity # Missing
    /\ ans.id # Missing

\* api.py:583-592 with api.py:483-532: whatever goes wrong is caught at
\* api.py:589 and the quantity stays
ReservedLookup(r, answers) ==
    /\ pc[r] = "reserved"
    /\ IF ~Authenticated
          THEN UNCHANGED << calls, applied_kitta, share_criteria_id,
                            reserved_response >>
          ELSE \E ans \in answers :
                /\ calls' = [calls EXCEPT ![r] =
                      Append(@, Call("reserved", cdsc_token, None, None, None))]
                /\ IF ReservedFound(ans)
                      THEN /\ applied_kitta' = [applied_kitta EXCEPT ![r] =
                                Str(ans.reservedQuantity)]
                           /\ share_criteria_id' = [share_criteria_id EXCEPT ![r] =
                                Str(ans.id)]
                      ELSE UNCHANGED << applied_kitta, share_criteria_id >>
                /\ reserved_response' = [reserved_response EXCEPT ![r] = ans]
    /\ pc' = [pc EXCEPT ![r] = "loop"]
    /\ idx' = [idx EXCEPT ![r] = 1]
    /\ UNCHANGED << pure, telegram >>
    /\ UNCHANGED << cdsc_token, entry, msg, user_row, token, selected_issue,
                    bulk, share_type_name,
                    user_details, headers, bank_ids, login_response,
                    listing_response, accepted, ipo_result, sent, result >>

\* api.py:596, the bank id of the i-th pass of the loop
BankAt(ids, i) == ids[i]

\* api.py:638: the test that ends the loop
IsLastBank(ids, i) == BankAt(ids, i) = ids[Len(ids)]

\* api.py:630-643: the attempt for bank_ids[idx] failed
BankFailed(r, text, cause) ==
    IF IsLastBank(bank_ids[r], idx[r])
        THEN /\ ApplyRaised(r, Raised({"all bank ids"} \cup text,
                                      BankAt(bank_ids[r], idx[r]), idx[r], cause))
             /\ UNCHANGED idx
        ELSE /\ idx' = [idx EXCEPT ![r] = @ + 1]
             /\ pc' = [pc EXCEPT ![r] = "loop"]
             /\ UNCHANGED << ipo_result, sent, result >>

AccountAnswers == {"ok", "http_error"}

\* api.py:596-601 with api.py:408-481
GetAccountDetails(r, answers) ==
    /\ pc[r] = "loop"
    /\ IF ~Authenticated
          THEN /\ BankFailed(r, NotAuthenticatedText, "not_authenticated")
               /\ UNCHANGED calls
          ELSE \E ans \in answers :
                /\ calls' = [calls EXCEPT ![r] =
                      Append(@, Call("account", cdsc_token,
                                     BankAt(bank_ids[r], idx[r]), None, None))]
                /\ IF ans = "ok"
                      THEN /\ pc' = [pc EXCEPT ![r] = "submit"]
                           /\ UNCHANGED << idx, ipo_result, sent, result >>
                      ELSE BankFailed(r, TransportText(ans), ans)
    /\ UNCHANGED << pure, telegram >>
    /\ UNCHANGED << cdsc_token, entry, msg, user_row, token, selected_issue,
                    bulk, share_type_name,
                    user_details, headers, bank_ids, applied_kitta,
                    share_criteria_id, login_response, listing_response,
                    reserved_response, accepted >>

\* api.py:627-628: apply_ipo returns the parsed body.  main.py:102-105: the
\* message handler reports the success; main.py:255 and 387: the loop over
\* the issues takes note
Succeeded(r, bank_id) ==
    /\ ipo_result' = [ipo_result EXCEPT ![r] = Receipt(bank_id, idx[r])]
    /\ IF entry[r] = "telegram"
          THEN Reply(r, "success", "success")
          ELSE BackToLoop(r)
    /\ UNCHANGED idx

SubmitAnswers == {"ok", "empty_body", "http_error", "timeout"}

\* api.py:626: raise_for_status() passes
SuccessStatus(ans) == ans \in {"ok", "empty_body"}

\* api.py:628: response.json() parses the body
Returns(ans) == ans = "ok"

\* PayloadCriteria without lines 619-620
PayloadCriteriaDropped(scid) == None

\* api.py:618-620: the payload has a shareCriteriaId when one was found
PayloadCriteria(scid) == IF Truthy(scid) THEN scid ELSE None

\* api.py:604-628: build the payload, post it with the headers of line 544,
\* return the parsed body
Submit(r, answers) ==
    /\ pc[r] = "submit"
    /\ \E ans \in answers :
        LET bank_id == BankAt(bank_ids[r], idx[r])
            shareCriteriaId == PayloadCriteria(share_criteria_id[r])
        IN  /\ calls' = [calls EXCEPT ![r] =
                  Append(@, Call("submit", headers[r], bank_id,
                                 applied_kitta[r], shareCriteriaId))]
            /\ accepted' = [accepted EXCEPT ![r] =
                  IF SuccessStatus(ans) THEN Append(@, Len(calls[r]) + 1) ELSE @]
            /\ IF SuccessStatus(ans) /\ Returns(ans)
                  THEN Succeeded(r, bank_id)
                  ELSE BankFailed(r, TransportText(ans), ans)
    /\ UNCHANGED << pure, telegram >>
    /\ UNCHANGED << cdsc_token, entry, msg, user_row, token, selected_issue,
                    bulk, share_type_name,
                    user_details, headers, bank_ids, applied_kitta,
                    share_criteria_id, login_response, listing_response,
                    reserved_response >>

\* the handler has returned: its locals are gone, cdsc_token stays
Return(r) ==
    /\ pc[r] = "done"
    /\ pc' = [pc EXCEPT ![r] = "idle"]
    /\ entry' = [entry EXCEPT ![r] = None]
    /\ attempt' = [attempt EXCEPT ![r] = 0]
    /\ applicable_issues' = [applicable_issues EXCEPT ![r] = <<>>]
    /\ issue_idx' = [issue_idx EXCEPT ![r] = 0]
    /\ applied_issues' = [applied_issues EXCEPT ![r] = <<>>]
    /\ failed_issues' = [failed_issues EXCEPT ![r] = <<>>]
    /\ share_type_name' = [share_type_name EXCEPT ![r] = None]
    /\ msg' = [msg EXCEPT ![r] = [person |-> None, company |-> <<>>, kitta |-> None]]
    /\ user_row' = [user_row EXCEPT ![r] = NoRow]
    /\ token' = [token EXCEPT ![r] = None]
    /\ selected_issue' = [selected_issue EXCEPT ![r] = NoIssue]
    /\ user_details' = [user_details EXCEPT ![r] = [demat |-> ""]]
    /\ headers' = [headers EXCEPT ![r] = None]
    /\ bank_ids' = [bank_ids EXCEPT ![r] = <<>>]
    /\ idx' = [idx EXCEPT ![r] = 0]
    /\ applied_kitta' = [applied_kitta EXCEPT ![r] = None]
    /\ share_criteria_id' = [share_criteria_id EXCEPT ![r] = None]
    /\ login_response' = [login_response EXCEPT ![r] = <<>>]
    /\ listing_response' = [listing_response EXCEPT ![r] = NoListing]
    /\ reserved_response' = [reserved_response EXCEPT ![r] = NoResponse]
    /\ calls' = [calls EXCEPT ![r] = <<>>]
    /\ accepted' = [accepted EXCEPT ![r] = <<>>]
    /\ ipo_result' = [ipo_result EXCEPT ![r] = NoResult]
    /\ sent' = [sent EXCEPT ![r] = <<>>]
    /\ result' = [result EXCEPT ![r] = None]
    /\ UNCHANGED << pure, telegram >>
    /\ UNCHANGED cdsc_token

----------------------------------------------------------------------------
(* apply_all_issues (POST /apply, main.py:189-302) and apply_all_issues_get *)
(* (GET /apply/{user_name}, main.py:322-447).  The two handlers differ in   *)
(* the arguments of apply_ipo and in the completion notice.                *)

\* a user name that is in no row of the directory
Stranger == "zz"

\* main.py:293-302 and 438-447: the handler reports the exception to the
\* chat and returns
BulkFailed(r) == Reply(r, "bulk_error", "error")

\* main.py:195-207 and 328-339: find the row of the user
ApplyAllIssues(r, entries, names, cells, serial) ==
    /\ pc[r] = "idle"
    /\ serial => \A q \in Req : pc[q] = "idle"
    /\ \E e \in entries, user_name \in names, cell \in cells :
        LET row == IF user_name \in People
                       THEN [name |-> user_name, appliedKitta |-> cell]
                       ELSE NoRow
        IN  /\ entry' = [entry EXCEPT ![r] = e]
            /\ IF row = NoRow
                  THEN /\ result' = [result EXCEPT ![r] = "error"]
                       /\ pc' = [pc EXCEPT ![r] = "done"]
                       /\ UNCHANGED user_row
                  ELSE /\ user_row' = [user_row EXCEPT ![r] = row]
                       /\ pc' = [pc EXCEPT ![r] = "retry_login"]
                       /\ UNCHANGED result
    /\ UNCHANGED << pure, telegram >>
    /\ UNCHANGED << cdsc_token, msg, token, selected_issue, bulk,
                    share_type_name, user_details, headers, bank_ids, idx,
                    applied_kitta, share_criteria_id, login_response,
                    listing_response, reserved_response, calls, accepted,
                    ipo_result, sent >>

\* main.py:215 and 347
max_retries == 3

\* main.py:218-231 and 350-363: one pass of the login loop.  Whatever login
\* raises, the loop sleeps and goes round again until the last pass.
LoginWithRetry(r, answers) ==
    /\ pc[r] = "retry_login"
    /\ \E ans \in answers :
        /\ calls' = [calls EXCEPT ![r] =
              Append(@, Call("login", "null", None, None, None))]
        /\ login_response' = [login_response EXCEPT ![r] = Append(@, ans)]
        /\ IF ans \in {"bearer", "no_header"}
              THEN LET t == IF ans = "bearer" THEN TokenOf(user_row[r].name)
                                              ELSE None
                   IN  /\ cdsc_token' = t
                       /\ token' = [token EXCEPT ![r] = t]
                       /\ pc' = [pc EXCEPT ![r] = "name"]
                       /\ UNCHANGED << attempt, sent, result >>
           ELSE IF attempt[r] < max_retries - 1
              THEN /\ attempt' = [attempt EXCEPT ![r] = @ + 1]
                   /\ UNCHANGED << cdsc_token, token, pc, sent, result >>
           ELSE /\ BulkFailed(r)
                /\ UNCHANGED << cdsc_token, token, attempt >>
    /\ UNCHANGED << pure, telegram >>
    /\ UNCHANGED << entry, msg, user_row, selected_issue, applicable_issues,
                    issue_idx, applied_issues, failed_issues, share_type_name,
                    user_details, headers, bank_ids, idx, applied_kitta,
                    share_criteria_id, listing_response, reserved_response,
                    accepted, ipo_result >>

\* main.py:235 and 367 with api.py:319-352: the own-details call for the
\* name of the completion notice
GetCdscName(r, answers) ==
    /\ pc[r] = "name"
    /\ IF ~Authenticated
          THEN /\ BulkFailed(r)
               /\ UNCHANGED calls
          ELSE \E ans \in answers :
                /\ calls' = [calls EXCEPT ![r] =
                      Append(@, Call("own_details", cdsc_token, None, None, None))]
                /\ IF ans \in {"ok", "empty_body"}
                      THEN /\ pc' = [pc EXCEPT ![r] = "list"]
                           /\ UNCHANGED << sent, result >>
                      ELSE BulkFailed(r)
    /\ UNCHANGED << pure, telegram >>
    /\ UNCHANGED << cdsc_token, entry, msg, user_row, token, selected_issue,
                    bulk, share_type_name, user_details, headers, bank_ids,
                    idx, applied_kitta, share_criteria_id, login_response,
                    listing_response, reserved_response, accepted, ipo_result >>

\* main.py:251-253: POST /apply calls apply_ipo without a share type;
\* main.py:383-385: GET /apply passes the one of the issue
ShareTypeArgument(e, issue) ==
    IF e = "get" THEN issue.shareTypeName ELSE None

\* main.py:238-245, 280-291 and 370-377, 425-436: the listing; without an
\* issue the handler sends the nothing-found notice and returns
ListIssues(r, answers) ==
    /\ pc[r] = "list"
    /\ IF ~Authenticated
          THEN /\ BulkFailed(r)
               /\ UNCHANGED << calls, listing_response, applicable_issues,
                               issue_idx, selected_issue, share_type_name >>
          ELSE \E ans \in answers :
                LET issues == GetApplicableIssues(ans)
                IN  /\ calls' = [calls EXCEPT ![r] =
                          Append(@, Call("issues", cdsc_token, None, None, None))]
                    /\ listing_response' = [listing_response EXCEPT ![r] =
                          Reported(ans, msg[r].company)]
                    /\ IF ans.status # "ok" /\ ~ListingCaught(ans.status)
                          THEN /\ BulkFailed(r)
                               /\ UNCHANGED << applicable_issues, issue_idx,
                                               selected_issue, share_type_name >>
                       ELSE IF issues = <<>>
                          THEN /\ Reply(r, "nothing_found", "success")
                               /\ UNCHANGED << applicable_issues, issue_idx,
                                               selected_issue, share_type_name >>
                       ELSE /\ applicable_issues' =
                                  [applicable_issues EXCEPT ![r] = issues]
                            /\ issue_idx' = [issue_idx EXCEPT ![r] = 1]
                            /\ selected_issue' =
                                  [selected_issue EXCEPT ![r] = issues[1]]
                            /\ share_type_name' = [share_type_name EXCEPT ![r] =
                                  ShareTypeArgument(entry[r], issues[1])]
                            /\ pc' = [pc EXCEPT ![r] = "apply"]
                            /\ UNCHANGED << sent, result >>
    /\ UNCHANGED << pure, telegram >>
    /\ UNCHANGED << cdsc_token, entry, msg, user_row, token, attempt,
                    applied_issues, failed_issues, user_details, headers,
                    bank_ids, idx, applied_kitta, share_criteria_id,
                    login_response, reserved_response, accepted, ipo_result >>

\* main.py:255-268 and 387-400: note the outcome of apply_ipo; then the
\* next issue, or after the last one the return of main.py:271-279 (no
\* notice) or 402-424 (the completion notice)
NextIssue(r) ==
    /\ pc[r] = "next"
    /\ LET issue == selected_issue[r]
       IN  IF ipo_result[r].kind = "returned"
              THEN /\ applied_issues' = [applied_issues EXCEPT ![r] =
                         Append(@, [scrip |-> issue.scrip,
                                    result |-> ipo_result[r].bank])]
                   /\ UNCHANGED failed_issues
              ELSE /\ failed_issues' = [failed_issues EXCEPT ![r] =
                         Append(@, [scrip |-> issue.scrip,
                                    reason |-> ipo_result[r].cause])]
                   /\ UNCHANGED applied_issues
    /\ IF issue_idx[r] < Len(applicable_issues[r])
          THEN LET issue == applicable_issues[r][issue_idx[r] + 1]
               IN  /\ issue_idx' = [issue_idx EXCEPT ![r] = @ + 1]
                   /\ selected_issue' = [selected_issue EXCEPT ![r] = issue]
                   /\ share_type_name' = [share_type_name EXCEPT ![r] =
                         ShareTypeArgument(entry[r], issue)]
                   /\ user_details' = [user_details EXCEPT ![r] = [demat |-> ""]]
                   /\ headers' = [headers EXCEPT ![r] = None]
                   /\ bank_ids' = [bank_ids EXCEPT ![r] = <<>>]
                   /\ idx' = [idx EXCEPT ![r] = 0]
                   /\ applied_kitta' = [applied_kitta EXCEPT ![r] = None]
                   /\ share_criteria_id' = [share_criteria_id EXCEPT ![r] = None]
                   /\ reserved_response' =
                         [reserved_response EXCEPT ![r] = NoResponse]
                   /\ ipo_result' = [ipo_result EXCEPT ![r] = NoResult]
                   /\ pc' = [pc EXCEPT ![r] = "apply"]
                   /\ UNCHANGED << sent, result >>
          ELSE /\ IF entry[r] = "get"
                     THEN Reply(r, "completion", "success")
                     ELSE /\ result' = [result EXCEPT ![r] = "success"]
                          /\ pc' = [pc EXCEPT ![r] = "done"]
                          /\ UNCHANGED sent
               /\ UNCHANGED << issue_idx, selected_issue, share_type_name,
                               user_details, headers, bank_ids, idx,
                               applied_kitta, share_criteria_id,
                               reserved_response, ipo_result >>
    /\ UNCHANGED << pure, telegram >>
    /\ UNCHANGED << cdsc_token, entry, msg, user_row, token, attempt,
                    applicable_issues, login_response, listing_response, calls,
                    accepted >>

----------------------------------------------------------------------------
(* get_applicable_issues (api.py:194-254) on a parsed body, step by step,  *)
(* and find_applicable_issue_by_company (api.py:271-317) on its result      *)

\* an element that is no JSON object: a text, a number, null
NotAMapping == [Issue(<<>>, <<>>, None, None, None, None, 0) EXCEPT !.mapping = FALSE]

IssueFPO == Issue(<<"B">>, <<"B", "c">>, "Ordinary Shares",
                  "CREATE_APPROVE", "FPO", "edit", 13)
IssueRight == Issue(<<"B">>, <<"B", "c">>, "Ordinary Shares",
                    "CREATE_APPROVE", "RIGHT", "edit", 14)
IssuePromoter == Issue(<<"A", "B">>, <<"A", "b", "c">>, "Promoter Shares",
                       "CREATE_APPROVE", "IPO", "edit", 15)
\* objects with a field missing
IssueNoAction == Issue(<<"X">>, <<"X", "c">>, "Ordinary Shares",
                       "CREATE_APPROVE", "IPO", None, 16)
IssueNoGroup == Issue(<<"X">>, <<"X", "c">>, None,
                      "CREATE_APPROVE", "IPO", "edit", 17)
IssueNoType == Issue(<<"X">>, <<"X", "c">>, "Ordinary Shares",
                     "CREATE_APPROVE", None, "edit", 18)

\* the elements a listing may hold
Elements ==
    IssuePool \cup {IssueFPO, IssueRight, IssuePromoter, IssueNoAction,
                    IssueNoGroup, IssueNoType, NotAMapping}

\* api.py:198-208, the keys looked for, in the order of the elif chain
WrapperKeys == << "object", "data", "content", "items", "results" >>

\* the keys an object may have: the five, and api.py:195's "totalCount"
ObjectKeys == {"object", "data", "content", "items", "results", "totalCount"}

\* the values an object may have under a key
KeyValues ==
    { JsonArray(<<>>), JsonArray(<<IssueAB>>), JsonArray(<<IssueABApplied, IssueX>>),
      JsonNull }

\* the parsed bodies: objects, arrays, and the scalars
Responses ==
    UNION { { JsonObject(f) : f \in [D -> KeyValues] } : D \in SUBSET ObjectKeys }
    \cup { JsonArray(l) : l \in SeqUpTo(Elements, MaxListing) }
    \cup { Json(k, <<>>, <<>>) : k \in {"null", "number", "string", "boolean"} }

\* api.py:198-212: the value under the first of the five keys that the
\* object has, or the object itself
Payload(data) ==
    LET has == { k \in 1..Len(WrapperKeys) : WrapperKeys[k] \in DOMAIN data.keys }
    IN  IF has = {} THEN data
        ELSE data.keys[WrapperKeys[CHOOSE k \in has : \A j \in has : k <= j]]

\* api.py:221: len() is defined for arrays, objects and texts
HasLen(v) == v.kind \in {"array", "object", "string"}

\* api.py:222: what the for loop goes through: the elements of an array,
\* the keys of an object, the characters of a text (one, here)
Iterate(v) ==
    CASE v.kind = "array" -> v.elems
      [] v.kind = "object" ->
            [k \in 1..Cardinality(DOMAIN v.keys) |-> NotAMapping]
      [] v.kind = "string" -> << NotAMapping >>
      [] OTHER -> <<>>

\* api.py:196-221.  A scalar is returned as it is (api.py:215-217); the
\* TypeError of len() for a value without a length is caught at api.py:263.
Normalize ==
    /\ listing_pc = "start"
    /\ IF response_data.kind \notin {"object", "array"}
          THEN /\ returned_issues' = response_data
               /\ listing_pc' = "returned"
               /\ UNCHANGED << raw_issues, issue_at, filtered_issues >>
          ELSE LET raw == IF response_data.kind = "object"
                             THEN Payload(response_data) ELSE response_data
               IN  /\ raw_issues' = raw
                   /\ filtered_issues' = <<>>
                   /\ IF HasLen(raw)
                         THEN /\ issue_at' = 1
                              /\ listing_pc' = "filter"
                              /\ UNCHANGED returned_issues
                         ELSE /\ returned_issues' = JsonArray(<<>>)
                              /\ listing_pc' = "returned"
                              /\ UNCHANGED issue_at
    /\ UNCHANGED << flow, fuzzy, fetcher, parsing, response_data, first_issues, company_query, found_issue >>

\* Collected leaving out an issue that is in the list already
CollectedOnce(list, issue) ==
    IF \E k \in 1..Len(list) : list[k] = issue THEN list ELSE Append(list, issue)

\* api.py:250
Collected(list, issue) == Append(list, issue)

\* api.py:222-251, one pass of the loop
FilterStep ==
    /\ listing_pc = "filter"
    /\ issue_at <= Len(Iterate(raw_issues))
    /\ LET issue == Iterate(raw_issues)[issue_at]
       IN  filtered_issues' = IF Eligible(issue)
                                  THEN Collected(filtered_issues, issue)
                                  ELSE filtered_issues
    /\ issue_at' = issue_at + 1
    /\ UNCHANGED << flow, fuzzy, fetcher, parsing, listing_pc, response_data, raw_issues, returned_issues,
                    first_issues, company_query, found_issue >>

\* api.py:253-254
FilterReturn ==
    /\ listing_pc = "filter"
    /\ issue_at > Len(Iterate(raw_issues))
    /\ returned_issues' = JsonArray(filtered_issues)
    /\ listing_pc' = "returned"
    /\ UNCHANGED << flow, fuzzy, fetcher, parsing, response_data, raw_issues, issue_at, filtered_issues,
                    first_issues, company_query, found_issue >>

\* the list that was returned is given to api.py:194-254 as a body
FilterAgain ==
    /\ listing_pc = "returned"
    /\ first_issues = JsonNull
    /\ returned_issues.kind = "array"
    /\ first_issues' = returned_issues
    /\ response_data' = returned_issues
    /\ listing_pc' = "start"
    /\ UNCHANGED << flow, fuzzy, fetcher, parsing, raw_issues, issue_at, filtered_issues, returned_issues,
                    company_query, found_issue >>

\* the company names that are looked for
CompanyQueries == Queries \cup { <<>>, <<"B">>, <<"c">>, <<"x", "c", "x">> }

\* api.py:298-300: nothing to search in a value that is empty or no list
Searchable(v) == v.kind = "array" /\ v.elems # <<>>

\* api.py:271-317 on what get_applicable_issues returned
FindIssue ==
    /\ listing_pc = "returned"
    /\ \E q \in CompanyQueries :
        /\ company_query' = q
        /\ found_issue' = IF Searchable(returned_issues)
                              THEN FindApplicableIssueByCompany(returned_issues.elems, q)
                              ELSE NoIssue
    /\ listing_pc' = "found"
    /\ UNCHANGED << flow, fuzzy, fetcher, parsing, response_data, raw_issues, issue_at, filtered_issues,
                    returned_issues, first_issues >>

InitResponses ==
    /\ InitFlow
    /\ InitFuzzy
    /\ InitFetcher
    /\ InitParsing
    /\ listing_pc = "start"
    /\ response_data \in Responses
    /\ raw_issues = JsonNull
    /\ issue_at = 0
    /\ filtered_issues = <<>>
    /\ returned_issues = JsonNull
    /\ first_issues = JsonNull
    /\ company_query = <<>>
    /\ found_issue = NoIssue

NextListing ==
    \/ Normalize
    \/ FilterStep
    \/ FilterReturn
    \/ FilterAgain
    \/ FindIssue

SpecListing == InitResponses /\ [][NextListing]_vars

----------------------------------------------------------------------------
(* fuzzy_match (parser.py:5-23), step by step *)

MaxWord == 2           \* longest text of those taken in full
MaxCandidates == 2     \* longest list of candidates

\* the texts over a set of letters
Words(letters) == SeqUpTo(letters, MaxWord)

\* the texts to match and the candidates: every text of two letters, in
\* either case, and longer ones of a similarity above the threshold (4/6,
\* 4/5) and of the threshold itself (6/10)
NameLetters == {"A", "b"}
CandidateLetters == {"a", "B"}
Names ==
    Words(NameLetters)
        \cup { << "A", "b", "b" >>, << "A", "b", "A" >>,
               << "A", "A", "A", "b", "b" >> }
CandidatePool ==
    Words(CandidateLetters)
        \cup { << "a", "B", "a" >>, << "a", "B", "B" >>, << "B", "B", "a" >>,
               << "B", "B", "a", "a", "a" >> }

\* difflib.SequenceMatcher.find_longest_match without junk: the blocks that
\* the two texts share, as << start in a, start in b, length >>
Blocks(a, b) ==
    { m \in (1..Len(a)) \X (1..Len(b)) \X (1..Len(a)) :
        /\ m[1] + m[3] - 1 <= Len(a)
        /\ m[2] + m[3] - 1 <= Len(b)
        /\ SubSeq(a, m[1], m[1] + m[3] - 1) = SubSeq(b, m[2], m[2] + m[3] - 1) }

\* the longest block; of the longest the one that starts first in a, and of
\* those the one that starts first in b
LongestMatch(a, b) ==
    CHOOSE m \in Blocks(a, b) :
        \A n \in Blocks(a, b) :
            \/ m[3] > n[3]
            \/ m[3] = n[3] /\ m[1] < n[1]
            \/ m[3] = n[3] /\ m[1] = n[1] /\ m[2] <= n[2]

\* difflib.SequenceMatcher.get_matching_blocks: the length of the longest
\* block, and the same to the left and to the right of it
RECURSIVE MatchCount(_, _)
MatchCount(a, b) ==
    IF Blocks(a, b) = {} THEN 0
    ELSE LET m == LongestMatch(a, b)
         IN  m[3]
             + MatchCount(SubSeq(a, 1, m[1] - 1), SubSeq(b, 1, m[2] - 1))
             + MatchCount(SubSeq(a, m[1] + m[3], Len(a)),
                          SubSeq(b, m[2] + m[3], Len(b)))

\* difflib.SequenceMatcher.ratio: 2.0 * matches / (len(a) + len(b)), and
\* 1.0 for two empty texts
Ratio(a, b) ==
    IF Len(a) + Len(b) = 0 THEN [num |-> 1, den |-> 1]
    ELSE [num |-> 2 * MatchCount(a, b), den |-> Len(a) + Len(b)]

\* x > y and x = y for two scores
Greater(x, y) == x.num * y.den > y.num * x.den
Same(x, y) == x.num * y.den = y.num * x.den

\* parser.py:5, the default of the parameter: 0.6
threshold == [num |-> 3, den |-> 5]

\* SubstringHit testing the text in the candidate alone
SubstringHitOneWay(text, candidate) == Contains(Lower(text), Lower(candidate))

\* parser.py:14
SubstringHit(text, candidate) ==
    \/ Contains(Lower(text), Lower(candidate))
    \/ Contains(Lower(candidate), Lower(text))

\* Improves with a candidate that scores the same taking the place
ImprovesOrTies(score, best) ==
    /\ Greater(score, threshold)
    /\ ~Greater(best, score)

\* parser.py:19
Improves(score, best) ==
    /\ Greater(score, threshold)
    /\ Greater(score, best)

\* parser.py:12-21, one pass of the loop
FuzzyStep ==
    /\ fuzzy_pc = "loop"
    /\ candidate_at <= Len(candidates)
    /\ LET candidate == candidates[candidate_at]
           score == Ratio(Lower(name), Lower(candidate))
       IN  IF SubstringHit(name, candidate)
              THEN /\ matched' = Some(candidate)
                   /\ fuzzy_pc' = "returned"
                   /\ UNCHANGED << candidate_at, best_match, best_score >>
              ELSE /\ candidate_at' = candidate_at + 1
                   /\ IF Improves(score, best_score)
                         THEN /\ best_score' = score
                              /\ best_match' = Some(candidate)
                         ELSE UNCHANGED << best_match, best_score >>
                   /\ UNCHANGED << matched, fuzzy_pc >>
    /\ UNCHANGED << flow, listing, fetcher, parsing, name, candidates >>

\* parser.py:23
FuzzyReturn ==
    /\ fuzzy_pc = "loop"
    /\ candidate_at > Len(candidates)
    /\ matched' = best_match
    /\ fuzzy_pc' = "returned"
    /\ UNCHANGED << flow, listing, fetcher, parsing, name, candidates, candidate_at, best_match,
                    best_score >>

InitNames ==
    /\ InitFlow
    /\ InitListing
    /\ InitFetcher
    /\ InitParsing
    /\ fuzzy_pc = "loop"
    /\ name \in Names
    /\ candidates \in SeqUpTo(CandidatePool, MaxCandidates)
    /\ candidate_at = 1
    /\ best_match = NoText
    /\ best_score = Zero
    /\ matched = NoText

NextFuzzy ==
    \/ FuzzyStep
    \/ FuzzyReturn

SpecFuzzy == InitNames /\ [][NextFuzzy]_vars

----------------------------------------------------------------------------
(* FloorsheetFetcher.fetch_floorsheet_data_with_retry                      *)
(* (floorsheet_fetcher.py:110-145), one attempt a step.  The calls of one  *)
(* fetcher follow each other (floorsheet_fetcher.py:158, 268, 305, 315).   *)

MaxFetches == 3        \* the calls of one fetcher

\* floorsheet_fetcher.py:52, self.max_retries
fetcher_max_retries == 3

\* unparsable: a 2xx whose body is no JSON
FetchAnswers == {"ok", "http_error", "timeout", "unparsable"}

\* floorsheet_fetcher.py:134: what the except clause catches.  What
\* response.json() raises on a body that is no JSON is a RequestException
\* in some releases of requests and a plain ValueError in others.
CaughtAsRequestException(ans, json_error_is_request_exception) ==
    \/ ans \in {"http_error", "timeout"}
    \/ ans = "unparsable" /\ json_error_is_request_exception

\* floorsheet_fetcher.py:122-124: the call begins
FetchFloorsheetData ==
    /\ fetch_pc = "idle"
    /\ Len(fetched) < MaxFetches
    /\ fetch_pc' = "try"
    /\ fetch_attempt' = 0
    /\ waits' = <<>>
    /\ UNCHANGED << flow, listing, fuzzy, parsing, retry_delay, fetched >>

\* floorsheet_fetcher.py:125-142: one attempt.  The call is left by the
\* return of line 132 or by an exception, never by the end of the loop, so
\* the assignment of line 145 is not reached.
FetchAttempt ==
    /\ fetch_pc = "try"
    /\ \E ans \in FetchAnswers, json_error_is_request_exception \in BOOLEAN :
        IF ans = "ok"
            THEN /\ fetched' = Append(fetched, "returned")
                 /\ fetch_pc' = "idle"
                 /\ UNCHANGED << retry_delay, fetch_attempt, waits >>
        ELSE IF ~CaughtAsRequestException(ans, json_error_is_request_exception)
            THEN /\ fetched' = Append(fetched, "raised")
                 /\ fetch_pc' = "idle"
                 /\ UNCHANGED << retry_delay, fetch_attempt, waits >>
        ELSE IF fetch_attempt < fetcher_max_retries - 1
            THEN /\ waits' = Append(waits, retry_delay)
                 /\ retry_delay' = retry_delay * 2
                 /\ fetch_attempt' = fetch_attempt + 1
                 /\ UNCHANGED << fetch_pc, fetched >>
        ELSE /\ fetched' = Append(fetched, "raised")
             /\ fetch_pc' = "idle"
             /\ UNCHANGED << retry_delay, fetch_attempt, waits >>
    /\ UNCHANGED << flow, listing, fuzzy, parsing >>

NextFetcher ==
    \/ FetchFloorsheetData
    \/ FetchAttempt

SpecFetcher == Init /\ [][NextFetcher]_vars

----------------------------------------------------------------------------
(* extract_person_company_and_kitta (parser.py:25-123).  A message is a     *)
(* sequence of chunks: a chunk is a word (a text of letters, a text of      *)
(* digits, or a text of other signs) or one space.  No word of the messages *)
(* holds a keyword of the templates as a part of it, so a template matches  *)
(* chunk by chunk as the regular expression matches sign by sign.           *)

MaxTokens == 3         \* longest message of those taken in full

Space == << " " >>

\* [a-zA-Z]+ and \d+ on a chunk
IsAlpha(chunk) ==
    /\ chunk # <<>>
    /\ \A k \in 1..Len(chunk) :
          chunk[k] \in
              { "a", "b", "c", "d", "e", "f", "g", "h", "i", "j", "k", "l",
                "m", "n", "o", "p", "q", "r", "s", "t", "u", "v", "w", "x",
                "y", "z", "A", "B", "X" }
IsDigits(chunk) ==
    /\ chunk # <<>>
    /\ \A k \in 1..Len(chunk) :
          chunk[k] \in { "0", "1", "2", "3", "4", "5", "6", "7", "8", "9" }

\* the words of the templates and of the stop list, and the other words
\* of the messages: a name, a company, a quantity and a sign
W ==
    [apply |-> << "a", "p", "p", "l", "y" >>,
     appy |-> << "a", "p", "p", "y" >>,
     ipo |-> << "i", "p", "o" >>,
     for |-> << "f", "o", "r" >>,
     in |-> << "i", "n" >>,
     company |-> << "c", "o", "m", "p", "a", "n", "y" >>,
     kitta |-> << "k", "i", "t", "t", "a" >>,
     the |-> << "t", "h", "e" >>,
     a |-> << "a" >>,
     an |-> << "a", "n" >>,
     baba |-> << "b", "a", "b", "a" >>,
     ax |-> << "a", "x" >>,
     ten |-> << "1", "0" >>,
     sign |-> << "!" >>]

\* str.join of the chunks: the message as one text
RECURSIVE Flat(_)
Flat(chunks) ==
    IF chunks = <<>> THEN <<>> ELSE Head(chunks) \o Flat(Tail(chunks))

\* str.strip
RECURSIVE Strip(_)
Strip(chunks) ==
    IF chunks = <<>> THEN <<>>
    ELSE IF Head(chunks) = Space THEN Strip(Tail(chunks))
    ELSE IF chunks[Len(chunks)] = Space
            THEN Strip(SubSeq(chunks, 1, Len(chunks) - 1))
    ELSE chunks

\* str.split
Split(chunks) == SelectSeq(chunks, LAMBDA c : c # Space)

\* ' '.join
RECURSIVE Join(_)
Join(words) ==
    IF words = <<>> THEN <<>>
    ELSE IF Len(words) = 1 THEN words
    ELSE << Head(words), Space >> \o Join(Tail(words))

\* str.lower, a chunk at a time
LowerChunks(chunks) == [k \in 1..Len(chunks) |-> Lower(chunks[k])]

\* The parts of a regular expression: one word of a set, a class repeated
\* once or more (greedy or not, captured as group cap or not), the next
\* len parts optional, ^ and $
One(words) ==
    [kind |-> "one", class |-> "word", words |-> words, greedy |-> TRUE,
     cap |-> 0, len |-> 0]
Plus(class, greedy, cap) ==
    [kind |-> "plus", class |-> class, words |-> {}, greedy |-> greedy,
     cap |-> cap, len |-> 0]
Opt(len) ==
    [kind |-> "opt", class |-> "", words |-> {}, greedy |-> TRUE, cap |-> 0,
     len |-> len]
Bol == [kind |-> "bol", class |-> "", words |-> {}, greedy |-> TRUE,
        cap |-> 0, len |-> 0]
Eol == [kind |-> "eol", class |-> "", words |-> {}, greedy |-> TRUE,
        cap |-> 0, len |-> 0]

\* \s+
Gap == Plus("s", TRUE, 0)

\* the classes: \s, [a-zA-Z\s], [a-zA-Z0-9\s], [a-zA-Z], [a-zA-Z0-9], \d
InClass(part, chunk) ==
    CASE part.class = "word" -> chunk \in part.words
      [] part.class = "s" -> chunk = Space
      [] part.class = "as" -> chunk = Space \/ IsAlpha(chunk)
      [] part.class = "ans" -> chunk = Space \/ IsAlpha(chunk) \/ IsDigits(chunk)
      [] part.class = "a" -> IsAlpha(chunk)
      [] part.class = "an" -> IsAlpha(chunk) \/ IsDigits(chunk)
      [] part.class = "d" -> IsDigits(chunk)
      [] OTHER -> FALSE

\* parser.py:38-56
patterns ==
    << \* (?:appy|apply)\s+(?:ipo\s+)?for\s+([a-zA-Z\s]+?)\s+(?:for\s+)?company\s+([a-zA-Z0-9\s]+)
       << One({W.appy, W.apply}), Gap, Opt(2), One({W.ipo}), Gap,
          One({W.for}), Gap, Plus("as", FALSE, 1), Gap, Opt(2), One({W.for}),
          Gap, One({W.company}), Gap, Plus("ans", TRUE, 2) >>,
       \* (?:appy|apply)\s+(?:ipo\s+)?for\s+([a-zA-Z\s]+?)\s+in\s+([a-zA-Z0-9\s]+)
       << One({W.appy, W.apply}), Gap, Opt(2), One({W.ipo}), Gap,
          One({W.for}), Gap, Plus("as", FALSE, 1), Gap, One({W.in}), Gap,
          Plus("ans", TRUE, 2) >>,
       \* ipo\s+([a-zA-Z\s]+?)\s+([a-zA-Z0-9\s]+)
       << One({W.ipo}), Gap, Plus("as", FALSE, 1), Gap, Plus("ans", TRUE, 2) >>,
       \* apply\s+for\s+([a-zA-Z\s]+?)\s+company\s+([a-zA-Z0-9\s]+)
       << One({W.apply}), Gap, One({W.for}), Gap, Plus("as", FALSE, 1), Gap,
          One({W.company}), Gap, Plus("ans", TRUE, 2) >>,
       \* ^([a-zA-Z]+)\s+([a-zA-Z0-9]+)$
       << Bol, Plus("a", TRUE, 1), Gap, Plus("an", TRUE, 2), Eol >>,
       \* for\s+([a-zA-Z\s]+?)\s+([a-zA-Z0-9\s]+)
       << One({W.for}), Gap, Plus("as", FALSE, 1), Gap, Plus("ans", TRUE, 2) >> >>

\* parser.py:63
kitta_pattern == << Plus("d", TRUE, 1), Gap, One({W.kitta}) >>

\* parser.py:92, 100
stop_words ==
    { W.for, W.in, W.company, W.apply, W.appy, W.ipo, W.the, W.a, W.an }

\* a match: where it ends (the place after it) and its two groups
NoMatch ==
    [ok |-> FALSE, start |-> 0, end |-> 0,
     groups |-> << [from |-> 1, to |-> 0], [from |-> 1, to |-> 0] >>]

\* re's matching of the parts from the i-th on at pos, with backtracking: a
\* greedy repetition tries the longest run first, a lazy one the shortest
RECURSIVE MatchAt(_, _, _, _, _)
RECURSIVE TryRun(_, _, _, _, _, _, _)
MatchAt(chunks, re, i, pos, groups) ==
    IF i > Len(re)
       THEN [ok |-> TRUE, start |-> 0, end |-> pos, groups |-> groups]
    ELSE LET part == re[i]
         IN  CASE part.kind = "bol" ->
                    IF pos = 1 THEN MatchAt(chunks, re, i + 1, pos, groups)
                    ELSE NoMatch
               [] part.kind = "eol" ->
                    IF pos = Len(chunks) + 1
                       THEN MatchAt(chunks, re, i + 1, pos, groups)
                    ELSE NoMatch
               [] part.kind = "one" ->
                    IF pos <= Len(chunks) /\ InClass(part, chunks[pos])
                       THEN MatchAt(chunks, re, i + 1, pos + 1, groups)
                    ELSE NoMatch
               [] part.kind = "opt" ->
                    LET taken == MatchAt(chunks, re, i + 1, pos, groups)
                    IN  IF taken.ok THEN taken
                        ELSE MatchAt(chunks, re, i + 1 + part.len, pos, groups)
               [] OTHER ->
                    \* n: how many chunks from pos on are of the class
                    LET n == CHOOSE n \in 0..(Len(chunks) + 1 - pos) :
                                /\ \A j \in 0..(n - 1) :
                                      InClass(part, chunks[pos + j])
                                /\ \/ pos + n > Len(chunks)
                                   \/ ~InClass(part, chunks[pos + n])
                    IN  TryRun(chunks, re, i, pos, groups,
                               IF part.greedy THEN n ELSE 1, n)

TryRun(chunks, re, i, pos, groups, k, n) ==
    IF k < 1 \/ k > n THEN NoMatch
    ELSE LET part == re[i]
             held == IF part.cap = 0 THEN groups
                     ELSE [groups EXCEPT ![part.cap] =
                              [from |-> pos, to |-> pos + k - 1]]
             rest == MatchAt(chunks, re, i + 1, pos + k, held)
         IN  IF rest.ok THEN rest
             ELSE TryRun(chunks, re, i, pos, groups,
                         IF part.greedy THEN k - 1 ELSE k + 1, n)

\* re.search from a place on: the leftmost match
RECURSIVE SearchFrom(_, _, _)
SearchFrom(chunks, re, pos) ==
    IF pos > Len(chunks) + 1 THEN NoMatch
    ELSE LET m == MatchAt(chunks, re, 1, pos, NoMatch.groups)
         IN  IF m.ok THEN [m EXCEPT !.start = pos]
             ELSE SearchFrom(chunks, re, pos + 1)

Search(chunks, re) == SearchFrom(chunks, re, 1)

\* match.group(g)
Group(chunks, m, g) == SubSeq(chunks, m.groups[g].from, m.groups[g].to)

\* re.sub(re, '', chunks): every match, from the left, is taken out
RECURSIVE SubFrom(_, _, _)
SubFrom(chunks, re, pos) ==
    LET m == SearchFrom(chunks, re, pos)
    IN  IF ~m.ok THEN SubSeq(chunks, pos, Len(chunks))
        ELSE SubSeq(chunks, pos, m.start - 1) \o SubFrom(chunks, re, m.end)

Sub(chunks, re) == SubFrom(chunks, re, 1)

\* fuzzy_match (parser.py:5-23) as a function: the loop from the k-th
\* candidate on
RECURSIVE FuzzyFrom(_, _, _, _, _)
FuzzyFrom(text, list, k, best, score) ==
    IF k > Len(list) THEN best
    ELSE IF SubstringHit(text, list[k]) THEN Some(list[k])
    ELSE LET s == Ratio(Lower(text), Lower(list[k]))
         IN  IF Improves(s, score)
                THEN FuzzyFrom(text, list, k + 1, Some(list[k]), s)
             ELSE FuzzyFrom(text, list, k + 1, best, score)

\* fuzzy_match returning the candidate in lower case
fuzzy_match_lowered(text, list) ==
    LET found == FuzzyFrom(text, list, 1, NoText, Zero)
    IN  IF found.some THEN Some(Lower(found.text)) ELSE found

fuzzy_match(text, list) == FuzzyFrom(text, list, 1, NoText, Zero)

\* Python truthiness of an optional text
Set(t) == t.some /\ t.text # <<>>

\* ExtractKitta leaving the quantity in the message
ExtractKittaKeepsText ==
    /\ parse_pc = "kitta"
    /\ LET lowered == Strip(LowerChunks(text_msg))
           kitta_match == Search(lowered, kitta_pattern)
       IN  /\ kitta' = IF kitta_match.ok
                          THEN Some(Flat(Group(lowered, kitta_match, 1)))
                       ELSE NoText
           /\ text_msg' = lowered
    /\ parse_pc' = "patterns"
    /\ UNCHANGED << flow, listing, fuzzy, fetcher, received, known_people,
                    person, company, template, word_by_word, extracted >>

\* parser.py:35, 62-68
ExtractKitta ==
    /\ parse_pc = "kitta"
    /\ LET lowered == Strip(LowerChunks(text_msg))
           kitta_match == Search(lowered, kitta_pattern)
       IN  IF kitta_match.ok
              THEN /\ kitta' = Some(Flat(Group(lowered, kitta_match, 1)))
                   /\ text_msg' = Strip(Sub(lowered, kitta_pattern))
              ELSE /\ kitta' = NoText
                   /\ text_msg' = lowered
    /\ parse_pc' = "patterns"
    /\ UNCHANGED << flow, listing, fuzzy, fetcher, received, known_people,
                    person, company, template, word_by_word, extracted >>

\* TemplatesFrom with a later template overriding an earlier one
RECURSIVE TemplatesLastWins(_, _, _, _)
TemplatesLastWins(chunks, list, k, found) ==
    IF k > Len(patterns) THEN found
    ELSE LET match == Search(chunks, patterns[k])
             matched_person ==
                 IF match.ok
                    THEN fuzzy_match(Flat(Strip(Group(chunks, match, 1))), list)
                 ELSE NoText
         IN  IF match.ok /\ Set(matched_person)
                THEN TemplatesLastWins(chunks, list, k + 1,
                         [template |-> k, person |-> matched_person,
                          company |-> Some(Strip(Group(chunks, match, 2)))])
             ELSE TemplatesLastWins(chunks, list, k + 1, found)

\* parser.py:71-82, the loop from the k-th template on
RECURSIVE TemplatesFrom(_, _, _, _)
TemplatesFrom(chunks, list, k, found) ==
    IF k > Len(patterns) THEN found
    ELSE LET match == Search(chunks, patterns[k])
             matched_person ==
                 IF match.ok
                    THEN fuzzy_match(Flat(Strip(Group(chunks, match, 1))), list)
                 ELSE NoText
         IN  IF match.ok /\ Set(matched_person)
                THEN [template |-> k, person |-> matched_person,
                      company |-> Some(Strip(Group(chunks, match, 2)))]
             ELSE TemplatesFrom(chunks, list, k + 1, found)

\* parser.py:70-82
TryPatterns ==
    /\ parse_pc = "patterns"
    /\ LET found == TemplatesFrom(text_msg, known_people, 1,
                                  [template |-> 0, person |-> NoText,
                                   company |-> NoText])
       IN  /\ template' = found.template
           /\ person' = found.person
           /\ company' = found.company
    /\ parse_pc' = "words"
    /\ UNCHANGED << flow, listing, fuzzy, fetcher, received, text_msg,
                    known_people, kitta, word_by_word, extracted >>

\* parser.py:89-106, the loop from the i-th word on
RECURSIVE WordsFrom(_, _, _)
WordsFrom(words, list, i) ==
    IF i > Len(words) THEN [person |-> NoText, company |-> NoText]
    ELSE IF words[i] \in stop_words THEN WordsFrom(words, list, i + 1)
    ELSE LET matched_person == fuzzy_match(words[i], list)
         IN  IF Set(matched_person)
                THEN [person |-> matched_person,
                      company |->
                          IF i < Len(words)
                             THEN Some(Join(SelectSeq(
                                      SubSeq(words, i + 1, Len(words)),
                                      LAMBDA w : w \notin stop_words)))
                          ELSE NoText]
             ELSE WordsFrom(words, list, i + 1)

\* WordByWord run whatever the templates found
WordByWordAlways ==
    /\ parse_pc = "words"
    /\ LET found == WordsFrom(Split(text_msg), known_people, 1)
       IN  /\ word_by_word' = TRUE
           /\ person' = found.person
           /\ company' = found.company
    /\ parse_pc' = "cleanup"
    /\ UNCHANGED << flow, listing, fuzzy, fetcher, received, text_msg,
                    known_people, kitta, template, extracted >>

\* parser.py:85-106
WordByWord ==
    /\ parse_pc = "words"
    /\ IF ~Set(person)
          THEN LET found == WordsFrom(Split(text_msg), known_people, 1)
               IN  /\ word_by_word' = TRUE
                   /\ person' = found.person
                   /\ company' = found.company
       ELSE UNCHANGED << word_by_word, person, company >>
    /\ parse_pc' = "cleanup"
    /\ UNCHANGED << flow, listing, fuzzy, fetcher, received, text_msg,
                    known_people, kitta, template, extracted >>

\* parser.py:109-117; the two expressions are ^(for|in|company)\s+ and
\* \s+(for|in|company)$
CleanUp(found) ==
    IF Set(found)
       THEN LET stop == One({W.for, W.in, W.company})
                without_prefix == Sub(found.text, << Bol, stop, Gap >>)
                cleaned == Strip(Sub(without_prefix, << Gap, stop, Eol >>))
            IN  IF cleaned = <<>> THEN NoText ELSE Some(Flat(cleaned))
    ELSE IF found.some THEN Some(<<>>)
    ELSE NoText

\* parser.py:108-123
ExtractReturn ==
    /\ parse_pc = "cleanup"
    /\ extracted' = [person |-> person, company |-> CleanUp(company),
                     kitta |-> kitta]
    /\ parse_pc' = "returned"
    /\ UNCHANGED << flow, listing, fuzzy, fetcher, received, text_msg,
                    known_people, kitta, person, company, template,
                    word_by_word >>

\* The messages: every message of up to MaxTokens words of the vocabulary,
\* a space between two words, and longer ones: the examples of
\* parser.py:27-33, the other stop words, a sign that no template takes,
\* upper case, a gap of several spaces, a name that is close to a known
\* one, and several quantities
PickedMessages ==
    { << W.apply, Space, W.ipo, Space, W.for, Space, W.baba, Space, W.for,
         Space, W.company, Space, W.ax, Space, W.ten, Space, W.kitta >>,
      << W.appy, Space, W.for, Space, W.baba, Space, W.in, Space, W.ax >>,
      << W.apply, Space, W.ipo, Space, W.for, Space, W.baba, Space, W.in,
         Space, W.ax, Space, W.company, Space, W.ten >>,
      << W.ipo, Space, << "z", "z" >>, Space, W.ax, Space, W.for, Space,
         W.baba, Space, W.ten >>,
      << W.ipo, Space, << "x", "a", "b" >>, Space, W.ax, Space, W.for, Space,
         W.baba, Space, W.ten >>,
      << Space, << "B", "A", "B", "A" >>, Space, Space, << "A", "X" >>, Space >>,
      << W.for, Space, Space, Space, W.ax >>,
      << W.baba, Space, W.the, Space, W.a >>,
      << W.baba, Space, W.apply, Space, W.ax, Space, W.an >>,
      << W.apply, Space, W.for, Space, W.baba, Space, W.company >>,
      << W.apply, Space, W.for, Space, W.baba, Space, W.company, Space,
         W.ax >>,
      << W.baba, Space, W.sign, Space, W.ten, Space, W.kitta >>,
      << W.for, Space, W.baba, Space, Space, W.sign >>,
      << << "b", "a", "b", "x" >>, Space, W.ax, Space, W.ten >>,
      << W.baba, Space, W.ax, Space, W.ten, Space, W.kitta, Space,
         << "2", "0" >>, Space, W.kitta >>,
      << W.baba, Space, W.ax, Space, << "1" >>, Space, << "5" >>, Space,
         W.kitta, Space, W.kitta >>,
      << W.baba, Space, W.ten, << "k", "i", "t", "t", "a" >> >> }

Messages ==
    LET vocabulary ==
            { W.for, W.in, W.company, W.ipo, W.the, W.kitta, W.baba, W.ax,
              W.ten, W.sign }
        Spaced(words) ==
            [k \in 1..(2 * Len(words) - 1) |->
                IF k % 2 = 1 THEN words[(k + 1) \div 2] ELSE Space]
    IN  { Spaced(words) : words \in SeqUpTo(vocabulary, MaxTokens) \ { <<>> } }
            \cup { <<>> } \cup PickedMessages

\* the lists of known people: none, and two names as the sheet has them
KnownPeopleLists ==
    { <<>>, << << "B", "a", "b", "a" >>, << "X", "a", "b" >> >> }

InitMessages ==
    /\ InitFlow
    /\ InitListing
    /\ InitFuzzy
    /\ InitFetcher
    /\ parse_pc = "kitta"
    /\ received \in Messages
    /\ text_msg = received
    /\ known_people \in KnownPeopleLists
    /\ kitta = NoText
    /\ person = NoText
    /\ company = NoText
    /\ template = 0
    /\ word_by_word = FALSE
    /\ extracted = NoExtract

NextParser ==
    \/ ExtractKitta
    \/ TryPatterns
    \/ WordByWord
    \/ ExtractReturn

SpecParser == InitMessages /\ [][NextParser]_vars

----------------------------------------------------------------------------
(* The program: requests are handled one at a time (the handlers of main.py *)
(* are coroutines that never await, run by the one event loop of           *)
(* main.py:656)                                                            *)

Next ==
    \E r \in Req :
        \/ Receive(r, Intents, SheetKittas, TRUE)
        \/ Login(r, LoginAnswers)
        \/ GetIssues(r, ListingAnswers)
        \/ GetUserDetails(r, DetailAnswers)
        \/ GetBankIds(r, BankAnswers)
        \/ ReservedLookup(r, ReservedAnswers)
        \/ GetAccountDetails(r, AccountAnswers)
        \/ Submit(r, SubmitAnswers)
        \/ Return(r)

Spec == Init /\ [][Next]_vars

----------------------------------------------------------------------------
(* Two requests in flight at once, as section 5 of the specification has   *)
(* them: the steps of the two handlers interleave at the broker calls.     *)
(* The broker answers every call.                                          *)

ConcurrentIntents ==
    { [person |-> p, company |-> c, kitta |-> None] : p \in People, c \in Queries }

NextConcurrent ==
    \E r \in Req :
        \/ Receive(r, ConcurrentIntents, {"20"}, FALSE)
        \/ Login(r, {"bearer"})
        \/ GetIssues(r, {[status |-> "ok", body |-> <<IssueAB, IssueX>>]})
        \/ GetUserDetails(r, {"ok"})
        \/ GetBankIds(r, {[status |-> "ok", body |-> <<"b1">>]})
        \/ ReservedLookup(r, {[status |-> "ok", reservedQuantity |-> 50, id |-> 7]})
        \/ GetAccountDetails(r, {"ok"})
        \/ Submit(r, {"ok"})
        \/ Return(r)

SpecConcurrent == Init /\ [][NextConcurrent]_vars

----------------------------------------------------------------------------
(* The two /apply endpoints, one request at a time.  The broker gives one  *)
(* bank id at most and answers the calls of apply_ipo or fails them.       *)

BulkLoginAnswers == {"bearer", "passwordExpired", "unauthorized", "timeout"}

BulkListingAnswers == { a \in ListingAnswers : a.status \in {"ok", "timeout"} }

BulkBankAnswers == { a \in BankAnswers : a.body \in {<<>>, <<"b1">>} }

BulkReservedAnswers ==
    { a \in ReservedAnswers : a.status = "ok" /\ a.reservedQuantity = 50 }

NextBulk ==
    \E r \in Req :
        \/ ApplyAllIssues(r, {"post", "get"}, People \cup {Stranger}, {"20"}, TRUE)
        \/ LoginWithRetry(r, BulkLoginAnswers)
        \/ GetCdscName(r, {"ok", "http_error"})
        \/ ListIssues(r, BulkListingAnswers)
        \/ GetUserDetails(r, {"ok", "http_error"})
        \/ GetBankIds(r, BulkBankAnswers)
        \/ ReservedLookup(r, BulkReservedAnswers)
        \/ GetAccountDetails(r, AccountAnswers)
        \/ Submit(r, {"ok", "http_error"})
        \/ NextIssue(r)
        \/ Return(r)

SpecBulk == Init /\ [][NextBulk]_vars

----------------------------------------------------------------------------
(* The three entry points together, one request at a time, with every      *)
(* answer to a login and the other calls answered or failed                *)

EntryListingAnswers ==
    { a \in ListingAnswers : a.status = "ok" /\ Len(a.body) = 1 }

NextEntries ==
    \E r \in Req :
        \/ Receive(r, ConcurrentIntents, {"20"}, TRUE)
        \/ ApplyAllIssues(r, {"post", "get"}, People, {"20"}, TRUE)
        \/ Login(r, LoginAnswers)
        \/ LoginWithRetry(r, LoginAnswers)
        \/ GetIssues(r, EntryListingAnswers)
        \/ GetCdscName(r, {"ok", "http_error"})
        \/ ListIssues(r, EntryListingAnswers)
        \/ GetUserDetails(r, {"ok"})
        \/ GetBankIds(r, {[status |-> "ok", body |-> <<"b1">>]})
        \/ ReservedLookup(r, BulkReservedAnswers)
        \/ GetAccountDetails(r, {"ok"})
        \/ Submit(r, {"ok", "http_error"})
        \/ NextIssue(r)
        \/ Return(r)

SpecEntries == Init /\ [][NextEntries]_vars

----------------------------------------------------------------------------
(* process_telegram_message with a Telegram API that delivers or fails     *)

InitNotify ==
    /\ InitHandlers
    /\ telegram \in TelegramAnswers
    /\ InitListing
    /\ InitFuzzy
    /\ InitFetcher
    /\ InitParsing

NextNotify ==
    \E r \in Req :
        \/ Receive(r, Intents, {"20"}, TRUE)
        \/ Login(r, LoginAnswers)
        \/ GetIssues(r, ListingAnswers)
        \/ GetUserDetails(r, DetailAnswers)
        \/ GetBankIds(r, BulkBankAnswers)
        \/ ReservedLookup(r, BulkReservedAnswers)
        \/ GetAccountDetails(r, AccountAnswers)
        \/ Submit(r, SubmitAnswers)
        \/ Return(r)

SpecNotify == InitNotify /\ [][NextNotify]_vars

----------------------------------------------------------------------------
(* Properties *)

AccountCalls(r) == SelectSeq(calls[r], LAMBDA c : c.op = "account")
SubmitCalls(r) == SelectSeq(calls[r], LAMBDA c : c.op = "submit")
BanksOf(cs) == [k \in 1..Len(cs) |-> cs[k].bank]
IsPrefix(s, t) == Len(s) <= Len(t) /\ s = SubSeq(t, 1, Len(s))
HasCall(r, ops) == \E k \in 1..Len(calls[r]) : calls[r][k].op \in ops

\* the quantity the message, the stored default and "10" give, in that order
ExpectedKitta(r) ==
    CASE msg[r].kitta # None -> msg[r].kitta
      [] msg[r].kitta = None /\ user_row[r].appliedKitta \notin {None, ""} ->
            user_row[r].appliedKitta
      [] OTHER -> "10"

IsReserved(r) == selected_issue[r].shareTypeName = "RESERVED"

\* the reserved lookup was made and answered with both fields
LookupSucceeded(r) ==
    /\ reserved_response[r].status = "ok"
    /\ reserved_response[r].reservedQuantity # Missing
    /\ reserved_response[r].id # Missing

\* C1: apply_ipo fetches the account details of the bank ids in the order of
\* the list, none skipped, and sends a submission only for the bank id whose
\* details it has just fetched; at a submission that succeeds (comes back
\* with a success status) apply_ipo returns the result of that submission,
\* and that submission is the last call of the invocation: no later bank id
\* is fetched or submitted.
C1_InOrderFirstSuccessReturns ==
    \A r \in Req :
        /\ IsPrefix(BanksOf(AccountCalls(r)), bank_ids[r])
        /\ \A k \in 1..Len(calls[r]) :
              calls[r][k].op = "submit" =>
                  /\ k > 1
                  /\ calls[r][k - 1].op = "account"
                  /\ calls[r][k - 1].bank = calls[r][k].bank
        /\ \A a \in 1..Len(accepted[r]) :
              /\ accepted[r][a] = Len(calls[r])
              /\ pc[r] = "done"
              /\ ipo_result[r].kind = "returned"
              /\ ipo_result[r].bank = calls[r][accepted[r][a]].bank

\* the aggregate error of api.py:640
AllBanksFailed(r) ==
    ipo_result[r].kind = "raised" /\ "all bank ids" \in ipo_result[r].text

\* C2: when apply_ipo fails with the aggregate error, every entry of the
\* bank-id list has been attempted, one attempt per entry in order, and the
\* error is the one of the attempt on the last entry.
C2_AllFailingTriesEveryBank ==
    \A r \in Req :
        AllBanksFailed(r) =>
            /\ BanksOf(AccountCalls(r)) = bank_ids[r]
            /\ ipo_result[r].attempt = Len(bank_ids[r])

\* C3: at most one submission of an invocation comes back with a success
\* status, and after one that did no further submission is sent.
C3_AtMostOneAccepted ==
    \A r \in Req :
        /\ Len(accepted[r]) <= 1
        /\ \A a \in 1..Len(accepted[r]) :
              \A k \in 1..Len(calls[r]) :
                  k > accepted[r][a] => calls[r][k].op # "submit"

\* C4: when the bank-id call has been made and left apply_ipo with an empty
\* list, apply_ipo has failed and the handler has finished with an error,
\* and the invocation made no reserved lookup, no account-details fetch and
\* no submission.
C4_EmptyBankListFailsAtOnce ==
    \A r \in Req :
        (HasCall(r, {"bank_ids"}) /\ bank_ids[r] = <<>>) =>
            /\ pc[r] = "done"
            /\ ipo_result[r].kind = "raised"
            /\ result[r] = "error"
            /\ ~HasCall(r, {"reserved", "account", "submit"})

\* C4 witness: the empty list came back for a RESERVED issue with a demat,
\* where the lookup would otherwise have been made
C4_Witness ==
    \E r \in Req :
        /\ ipo_result[r].cause = "empty_list"
        /\ IsReserved(r)
        /\ user_details[r].demat # ""

\* C5: for an issue that is not RESERVED the appliedKitta of every submitted
\* payload is the message quantity if there is one, else the stored default
\* if it is not empty, else "10"; every attempt carries that same value.
C5_QuantityPrecedence ==
    \A r \in Req :
        ~IsReserved(r) =>
            \A k \in 1..Len(calls[r]) :
                calls[r][k].op = "submit" => calls[r][k].kitta = ExpectedKitta(r)

\* C5 witness: message quantity "5" against a stored default "20", two
\* submissions made
C5_Witness ==
    \E r \in Req :
        /\ ~IsReserved(r)
        /\ msg[r].kitta = "5"
        /\ user_row[r].appliedKitta = "20"
        /\ Len(SubmitCalls(r)) >= 2
        /\ \A k \in 1..2 : SubmitCalls(r)[k].kitta = "5"

\* C6: every payload submitted after a successful reserved lookup carries the
\* returned reserved quantity as appliedKitta and the returned id as
\* shareCriteriaId; a payload has a shareCriteriaId only then, and only for a
\* RESERVED issue.
C6_ReservedOverrides ==
    \A r \in Req :
        \A k \in 1..Len(calls[r]) :
            calls[r][k].op = "submit" =>
                IF LookupSucceeded(r)
                    THEN /\ IsReserved(r)
                         /\ calls[r][k].kitta = Str(reserved_response[r].reservedQuantity)
                         /\ calls[r][k].scid = Str(reserved_response[r].id)
                    ELSE calls[r][k].scid = None

\* C6 witness: a submission after a successful lookup, with a message
\* quantity and a stored default that the reserved quantity overrides
C6_Witness ==
    \E r \in Req :
        /\ LookupSucceeded(r)
        /\ msg[r].kitta = "5"
        /\ user_row[r].appliedKitta = "20"
        /\ Len(SubmitCalls(r)) >= 1
        /\ SubmitCalls(r)[1].kitta = "50"
        /\ SubmitCalls(r)[1].scid = "7"

\* C7: for a RESERVED issue whose lookup did not succeed (not made for want
\* of a demat, failed in transport, unparsable, or answered without
\* reservedQuantity or id) apply_ipo is not left at the lookup: the bank-id
\* loop runs with the quantity of the message > default > "10" precedence and
\* every payload is without shareCriteriaId.
C7_FailedLookupFallsBack ==
    \A r \in Req :
        (IsReserved(r) /\ ~LookupSucceeded(r)) =>
            /\ pc[r] \in {"loop", "submit"} =>
                  /\ applied_kitta[r] = ExpectedKitta(r)
                  /\ share_criteria_id[r] = None
            /\ \A k \in 1..Len(calls[r]) :
                  calls[r][k].op = "submit" =>
                      /\ calls[r][k].kitta = ExpectedKitta(r)
                      /\ calls[r][k].scid = None
            /\ (pc[r] = "done" /\ HasCall(r, {"reserved"})) =>
                  HasCall(r, {"account"})

\* C7 witness: the lookup was answered without an id, and a submission with
\* the stored default followed
C7_Witness ==
    \E r \in Req :
        /\ IsReserved(r)
        /\ reserved_response[r].status = "ok"
        /\ reserved_response[r].id = Missing
        /\ reserved_response[r].reservedQuantity = 50
        /\ Len(SubmitCalls(r)) >= 1
        /\ SubmitCalls(r)[1].kitta = "20"

\* C8: a submission is sent only for a request whose person is a person of
\* the directory and whose company matched an eligible issue, the one that
\* is submitted; a finished request without a selected issue (no person, no
\* company, unknown person, no matching issue) sent one error message and no
\* submission.
C8_SubmitOnlyWhenResolved ==
    \A r \in Req :
        /\ HasCall(r, {"submit"}) =>
              /\ msg[r].person \in People
              /\ user_row[r].name = msg[r].person
              /\ msg[r].company # <<>>
              /\ selected_issue[r] # NoIssue
              /\ Eligible(selected_issue[r])
              /\ MatchesCompany(selected_issue[r], Lower(msg[r].company))
        /\ (pc[r] = "done" /\ selected_issue[r] = NoIssue) =>
              /\ ~HasCall(r, {"submit"})
              /\ Len(sent[r]) = 1
              /\ sent[r][1] \notin {"success", "already_filled"}
              /\ result[r] = "error"

\* C8 witness: the listing held an issue, but none for the company of the
\* message, and the request ended with the no-issue error
C8_Witness ==
    \E r \in Req :
        /\ pc[r] = "done"
        /\ msg[r].person \in People
        /\ HasCall(r, {"issues"})
        /\ selected_issue[r] = NoIssue
        /\ sent[r] = << "no_issue" >>

\* C9: every broker call of a request after its login carries the token that
\* the login of that request returned.
C9_OwnTokenOnEveryCall ==
    \A r \in Req :
        \A k \in 1..Len(calls[r]) :
            calls[r][k].op # "login" => calls[r][k].auth = token[r]

\* C10: a request whose message gave no person or no company makes no broker
\* call at all, not even the login, and ends with the format hint as its
\* only message.
C10_UndetectedMakesNoCall ==
    \A r \in Req :
        (pc[r] # "idle" /\ (msg[r].person = None \/ msg[r].company = <<>>)) =>
            /\ pc[r] = "done"
            /\ calls[r] = <<>>
            /\ sent[r] = << "format_hint" >>
            /\ result[r] = "error"

\* C10 witness: a known person without a company got the format hint
C10_Witness ==
    \E r \in Req :
        /\ pc[r] = "done"
        /\ msg[r].person \in People
        /\ msg[r].company = <<>>
        /\ sent[r] = << "format_hint" >>

\* the broker reported the issue of the company of the message as one
\* that is open and that the person has applied to already
AlreadyApplied(r) ==
    LET issue == listing_response[r].issue
    IN  /\ listing_response[r].status = "ok"
        /\ issue # NoIssue
        /\ issue.action = "inProcess"
        /\ issue.shareGroupName = "Ordinary Shares"
        /\ issue.statusName = "CREATE_APPROVE"
        /\ issue.shareTypeName \in {"IPO", "FPO", "RESERVED"}

\* C11: a finished request whose issue the broker reported with action
\* "inProcess" was sent the "Already filled IPO" message and nothing else,
\* returned the status "warning", and sent no submission.
C11_AlreadyFilledOutcome ==
    \A r \in Req :
        (pc[r] = "done" /\ AlreadyApplied(r)) =>
            /\ sent[r] = << "already_filled" >>
            /\ result[r] = "warning"
            /\ ~HasCall(r, {"submit"})

\* the answer to the last login of the request
LastLogin(r) == login_response[r][Len(login_response[r])]

\* the remediation hint of an expiry answer
HintOf(ans) ==
    CASE ans = "passwordExpired" -> "password_expired"
      [] ans = "accountExpired" -> "account_expired"
      [] ans = "dematExpired" -> "demat_expired"

\* C12: a finished request whose login the broker answered with
\* passwordExpired, accountExpired or dematExpired was sent the hint of that
\* expiry type as its only message.
C12_ExpiryGetsItsOwnHint ==
    \A r \in Req :
        (/\ pc[r] = "done"
         /\ login_response[r] # <<>>
         /\ LastLogin(r) \in {"passwordExpired", "accountExpired", "dematExpired"}) =>
            sent[r] = << HintOf(LastLogin(r)) >>

\* the listing call failed in transport or its body did not parse
ListingFailed(r) ==
    listing_response[r].status \in
        {"empty_body", "http_error", "timeout", "connection_error"}

\* the broker answered the listing call with an empty list
NothingOpen(r) ==
    /\ listing_response[r].status = "ok"
    /\ listing_response[r].size = 0

\* C14: a listing call that fails in transport raises nothing: the request
\* ends as it does when the broker reports nothing open, with the no-issue
\* message as its only message, the status "error", no issue selected and
\* the listing call as its last broker call.
C14_ListingFailureIsNothingOpen ==
    \A r \in Req :
        (ListingFailed(r) \/ NothingOpen(r)) =>
            /\ pc[r] = "done"
            /\ selected_issue[r] = NoIssue
            /\ ipo_result[r] = NoResult
            /\ sent[r] = << "no_issue" >>
            /\ result[r] = "error"
            /\ calls[r][Len(calls[r])].op = "issues"

\* C14 witness: the listing call timed out and the request ended with the
\* no-issue message
C14_Witness ==
    \E r \in Req :
        /\ listing_response[r].status = "timeout"
        /\ sent[r] = << "no_issue" >>

\* the body of the listing did not parse
C14_WitnessUnparsable ==
    \E r \in Req :
        /\ listing_response[r].status = "empty_body"
        /\ sent[r] = << "no_issue" >>

\* the rejections of a login that another try cannot mend: wrong
\* credentials, an expired password, account or demat
Rejections == {"unauthorized", "passwordExpired", "accountExpired", "dematExpired"}

\* C13: a login that the broker rejected for wrong credentials or for an
\* expired password, account or demat is the last login of its request.
C13_NoLoginAfterRejection ==
    \A r \in Req :
        \A k \in 1..Len(login_response[r]) :
            login_response[r][k] \in Rejections => k = Len(login_response[r])

\* get_applicable_issues has returned, or its result has been searched
Returned == listing_pc \in {"returned", "found"}

\* the four conditions on an element of the candidates; an element without
\* an action is not one with the action "inProcess"
Kept(e) ==
    /\ e.mapping
    /\ e.shareGroupName = "Ordinary Shares"
    /\ e.statusName = "CREATE_APPROVE"
    /\ e.shareTypeName \in {"IPO", "FPO", "RESERVED"}
    /\ e.action # "inProcess"

\* the four conditions, none of them met by an element that lacks the field
KeptWithAllFields(e) == Kept(e) /\ e.action # None

\* C15 as stated: for candidates that are a sequence, the result of
\* get_applicable_issues is the candidates without the elements that are no
\* mapping, lack one of the four fields or fail one of the four conditions.
C15_MissingFieldIsDropped ==
    (Returned /\ raw_issues.kind = "array") =>
        returned_issues = JsonArray(SelectSeq(raw_issues.elems, KeptWithAllFields))

\* C15, amended: for candidates that are a sequence, the result of
\* get_applicable_issues is the candidates without the elements that are no
\* mapping or fail one of the four conditions, where an element without an
\* action field passes the condition on the action; after each pass of the
\* loop the list built so far is that of the candidates gone through.
C15_FilterKeepsExactlyEligible ==
    /\ (listing_pc = "filter" /\ raw_issues.kind = "array") =>
          filtered_issues =
              SelectSeq(SubSeq(raw_issues.elems, 1, issue_at - 1), Kept)
    /\ (Returned /\ raw_issues.kind = "array") =>
          returned_issues = JsonArray(SelectSeq(raw_issues.elems, Kept))

\* C15 witness: of an element without a share group and one without an
\* action, the second alone is returned
C15_Witness ==
    /\ listing_pc = "returned"
    /\ raw_issues = JsonArray(<< IssueNoGroup, IssueNoAction >>)
    /\ returned_issues = JsonArray(<< IssueNoAction >>)

\* of an issue that has been applied to and one that has not, the second
\* alone is returned
C15_WitnessApplied ==
    /\ listing_pc = "returned"
    /\ raw_issues = JsonArray(<< IssueABApplied, IssueAB >>)
    /\ returned_issues = JsonArray(<< IssueAB >>)

\* s is t with some elements left out
IsSubsequence(s, t) ==
    \E f \in [1..Len(s) -> 1..Len(t)] :
        /\ \A j, k \in 1..Len(s) : j < k => f[j] < f[k]
        /\ \A k \in 1..Len(s) : s[k] = t[f[k]]

Count(e, s) == Cardinality({ k \in 1..Len(s) : s[k] = e })

\* C16: the result holds the surviving candidates in the order of the
\* candidates, each as often as the candidates hold it, and the filter run
\* on its own result returns that result.
C16_FilterOrderAndIdempotent ==
    /\ (Returned /\ raw_issues.kind = "array") =>
          /\ IsSubsequence(returned_issues.elems, raw_issues.elems)
          /\ \A e \in Elements :
                Count(e, returned_issues.elems) \in {0, Count(e, raw_issues.elems)}
    /\ (Returned /\ first_issues # JsonNull) => returned_issues = first_issues

\* C16 witness: a result that holds the same issue twice has been filtered
\* again
C16_Witness ==
    /\ listing_pc = "returned"
    /\ first_issues = JsonArray(<< IssueAB, IssueAB >>)
    /\ returned_issues = first_issues

\* the value under the first key that the object has, of object, data,
\* content, items, results
FirstOfFive(data) ==
    CASE "object" \in DOMAIN data.keys -> data.keys["object"]
      [] "object" \notin DOMAIN data.keys /\ "data" \in DOMAIN data.keys ->
            data.keys["data"]
      [] {"object", "data"} \cap DOMAIN data.keys = {}
         /\ "content" \in DOMAIN data.keys -> data.keys["content"]
      [] {"object", "data", "content"} \cap DOMAIN data.keys = {}
         /\ "items" \in DOMAIN data.keys -> data.keys["items"]
      [] OTHER -> data.keys["results"]

HasOneOfFive(data) ==
    {"object", "data", "content", "items", "results"} \cap DOMAIN data.keys # {}

\* the candidates are those of the priority order; an object with none of
\* the five keys gives the empty list; an array is its own candidates
CandidatesTaken ==
    (listing_pc \in {"filter", "returned", "found"}) =>
        /\ (response_data.kind = "object" /\ HasOneOfFive(response_data)) =>
              raw_issues = FirstOfFive(response_data)
        /\ (response_data.kind = "object" /\ ~HasOneOfFive(response_data)
              /\ Returned) =>
              returned_issues = JsonArray(<<>>)
        /\ response_data.kind = "array" => raw_issues = response_data

\* C17: the candidates of an object are the value under the first of the
\* five keys it has; an object with none of them gives the empty list; an
\* array is used as it is; and whatever the body, what
\* get_applicable_issues returns is a sequence.
C17_NormalizationAlwaysASequence ==
    /\ CandidatesTaken
    /\ Returned => returned_issues.kind = "array"

\* the query is contained in the scrip or in the company name
QueryInField(issue, query) ==
    \/ Contains(Lower(query), Lower(issue.scrip))
    \/ Contains(Lower(query), Lower(issue.companyName))

\* C18: find_applicable_issue_by_company returns the first issue of the
\* list whose lowercased scrip or company name contains the lowercased
\* query, and None when no issue of the list does.
C18_FindFirstContaining ==
    listing_pc = "found" =>
        LET list == IF returned_issues.kind = "array"
                       THEN returned_issues.elems ELSE <<>>
            hits == { k \in 1..Len(list) : QueryInField(list[k], company_query) }
        IN  /\ hits = {} => found_issue = NoIssue
            /\ hits # {} =>
                  \E k \in hits :
                      /\ \A j \in hits : k <= j
                      /\ found_issue = list[k]

\* C18 witness: the scrip and the company name of the one issue of the list
\* are contained in the query, the query in neither, and None was returned
C18_Witness ==
    /\ listing_pc = "found"
    /\ returned_issues = JsonArray(<< IssueX >>)
    /\ company_query = << "x", "c", "x" >>
    /\ found_issue = NoIssue

\* an issue was found by its company name, behind one that does not match
C18_WitnessSecond ==
    /\ listing_pc = "found"
    /\ returned_issues = JsonArray(<< IssueX, IssueAB >>)
    /\ company_query = << "B" >>
    /\ found_issue = IssueAB

\* the text and the candidate are in a substring relation, whatever the case
Related(text, candidate) ==
    \/ Contains(Lower(text), Lower(candidate))
    \/ Contains(Lower(candidate), Lower(text))

Least(S) == CHOOSE k \in S : \A j \in S : k <= j

\* C19: when some candidate is in a substring relation with the text,
\* fuzzy_match returns the first such candidate of the list, whatever the
\* candidates before it score; for an empty list it returns None.
C19_FirstSubstringCandidate ==
    fuzzy_pc = "returned" =>
        LET related == { k \in 1..Len(candidates) : Related(name, candidates[k]) }
        IN  /\ related # {} => matched = Some(candidates[Least(related)])
            /\ candidates = <<>> => matched = NoText

\* C19 witness: the first candidate scores above the threshold and is in no
\* substring relation, the second is contained in the text and is returned
C19_Witness ==
    /\ fuzzy_pc = "returned"
    /\ name = << "A", "b", "b" >>
    /\ candidates = << << "a", "B", "a" >>, << "a" >> >>
    /\ Greater(Ratio(Lower(name), Lower(candidates[1])), threshold)
    /\ matched = Some(<< "a" >>)

\* the similarity of the text and the k-th candidate
Similarity(k) == Ratio(Lower(name), Lower(candidates[k]))

\* C20: when no candidate is in a substring relation with the text,
\* fuzzy_match returns the first of the candidates whose similarity is the
\* greatest of all and above the threshold, and None when no similarity is
\* above the threshold.
C20_BestAboveThreshold ==
    (fuzzy_pc = "returned"
     /\ \A k \in 1..Len(candidates) : ~Related(name, candidates[k])) =>
        LET above == { k \in 1..Len(candidates) : Greater(Similarity(k), threshold) }
            best == { k \in above :
                        \A j \in 1..Len(candidates) :
                            ~Greater(Similarity(j), Similarity(k)) }
        IN  /\ above = {} => matched = NoText
            /\ above # {} => matched = Some(candidates[Least(best)])

\* C20 witness: two candidates above the threshold, the second the better
\* one, and the second is returned
C20_Witness ==
    /\ fuzzy_pc = "returned"
    /\ name = << "A", "b", "A" >>
    /\ candidates = << << "a", "B", "B" >>, << "a", "a" >> >>
    /\ Greater(Similarity(1), threshold)
    /\ Greater(Similarity(2), Similarity(1))
    /\ matched = Some(<< "a", "a" >>)

\* the only candidate is as similar as the threshold says, and no more:
\* None is returned
C20_WitnessAtThreshold ==
    /\ fuzzy_pc = "returned"
    /\ name = << "A", "A", "A", "b", "b" >>
    /\ candidates = << << "B", "B", "a", "a", "a" >> >>
    /\ ~Related(name, candidates[1])
    /\ Same(Similarity(1), threshold)
    /\ matched = NoText

\* two candidates of the same similarity above the threshold: the first is
\* returned
C20_WitnessTie ==
    /\ fuzzy_pc = "returned"
    /\ name = << "A", "b", "A" >>
    /\ candidates = << << "a", "B", "B" >>, << "B", "B", "a" >> >>
    /\ Greater(Similarity(1), threshold)
    /\ Same(Similarity(1), Similarity(2))
    /\ matched = Some(<< "a", "B", "B" >>)

\* the person phrase and the company of the k-th template on a text
PersonPhrase(chunks, k) ==
    Flat(Strip(Group(chunks, Search(chunks, patterns[k]), 1)))
CompanyPhrase(chunks, k) ==
    Strip(Group(chunks, Search(chunks, patterns[k]), 2))

\* the templates that match the text and whose person phrase resolves
Resolving(chunks, list) ==
    { k \in 1..Len(patterns) :
        /\ Search(chunks, patterns[k]).ok
        /\ Set(fuzzy_match(PersonPhrase(chunks, k), list)) }

\* the extractor is past its loop over the templates
TemplatesTried == parse_pc \in {"words", "cleanup", "returned"}
WordsTried == parse_pc \in {"cleanup", "returned"}

\* C21: when some template matches and resolves, person and company are
\* those of the first such template in the order of the list, whatever the
\* templates before it matched and whatever the ones after it would give,
\* and the word-by-word loop is not entered; it is entered exactly when no
\* template resolved a person.
C21_FirstResolvingTemplateWins ==
    TemplatesTried =>
        LET resolving == Resolving(text_msg, known_people)
        IN  /\ resolving = {} =>
                /\ template = 0
                /\ WordsTried => word_by_word
            /\ resolving # {} =>
                LET first == CHOOSE k \in resolving : \A j \in resolving : k <= j
                IN  /\ template = first
                    /\ person = fuzzy_match(PersonPhrase(text_msg, first),
                                            known_people)
                    /\ company = Some(CompanyPhrase(text_msg, first))
                    /\ ~word_by_word
                    /\ parse_pc = "returned" =>
                          /\ extracted.person = person
                          /\ extracted.company = CleanUp(company)

\* C21 witness: the third template matched with a phrase that is nobody,
\* and the sixth gave the person and the company
C21_Witness ==
    /\ parse_pc = "returned"
    /\ template = 6
    /\ Search(text_msg, patterns[3]).ok
    /\ 3 \notin Resolving(text_msg, known_people)
    /\ extracted.person = Some(<< "B", "a", "b", "a" >>)
    /\ extracted.company = Some(W.ten)

\* the first template won over the second, which would have given another
\* company
C21_WitnessNoOverride ==
    /\ parse_pc = "returned"
    /\ template = 1
    /\ 2 \in Resolving(text_msg, known_people)
    /\ CompanyPhrase(text_msg, 2) # CompanyPhrase(text_msg, 1)
    /\ extracted.company = Some(Flat(CompanyPhrase(text_msg, 1)))

\* no template resolved, and the word-by-word loop found the person
C21_WitnessWordByWord ==
    /\ parse_pc = "returned"
    /\ template = 0
    /\ word_by_word
    /\ \E k \in 1..Len(patterns) : Search(text_msg, patterns[k]).ok
    /\ extracted.person = Some(<< "B", "a", "b", "a" >>)

\* the message as parser.py:35 leaves it
Lowered == Strip(LowerChunks(received))

\* the place of the word "kitta" that ends a quantity fragment starting at
\* p: digits at p, spaces and nothing else up to the word
FragmentEnd(chunks, p) ==
    CHOOSE q \in (p + 2)..Len(chunks) :
        /\ chunks[q] = W.kitta
        /\ \A j \in (p + 1)..(q - 1) : chunks[j] = Space

\* the places where a quantity fragment starts
Fragments(chunks) ==
    { p \in 1..Len(chunks) :
        /\ IsDigits(chunks[p])
        /\ \E q \in (p + 2)..Len(chunks) :
              /\ chunks[q] = W.kitta
              /\ \A j \in (p + 1)..(q - 1) : chunks[j] = Space }

\* the chunks that are in no quantity fragment, in their order
RECURSIVE Keep(_, _)
Keep(chunks, places) ==
    IF chunks = <<>> THEN <<>>
    ELSE LET n == Len(chunks)
             before == Keep(SubSeq(chunks, 1, n - 1), places)
         IN  IF n \in places THEN before \o << chunks[n] >> ELSE before

OutsideFragments(chunks) ==
    Keep(chunks,
         { j \in 1..Len(chunks) :
             \A p \in Fragments(chunks) : j < p \/ j > FragmentEnd(chunks, p) })

\* C22: once the quantity is extracted, kitta is the digits of the first
\* "<digits> kitta" fragment of the message and the text that the templates
\* and the word-by-word loop read is the message without its fragments;
\* with no fragment kitta is None and the text is the message.  The record
\* returned carries that kitta.
C22_FirstQuantityTakenOut ==
    parse_pc \in {"patterns", "words", "cleanup", "returned"} =>
        LET starts == Fragments(Lowered)
        IN  /\ starts = {} => kitta = NoText /\ text_msg = Lowered
            /\ starts # {} =>
                LET first == CHOOSE p \in starts : \A q \in starts : p <= q
                IN  /\ kitta = Some(Lowered[first])
                    /\ text_msg = Strip(OutsideFragments(Lowered))
            /\ parse_pc = "returned" => extracted.kitta = kitta

\* C22 witness: two quantities; the first is returned and neither is in
\* the company
C22_Witness ==
    /\ parse_pc = "returned"
    /\ Cardinality(Fragments(Lowered)) = 2
    /\ extracted.kitta = Some(W.ten)
    /\ extracted.person = Some(<< "B", "a", "b", "a" >>)
    /\ extracted.company = Some(W.ax)

\* digits and "kitta" with no space between them are no quantity
C22_WitnessNoQuantity ==
    /\ parse_pc = "returned"
    /\ \E p \in 1..Len(received) : received[p] = W.kitta
    /\ extracted.kitta = NoText
    /\ extracted.person = Some(<< "B", "a", "b", "a" >>)
    /\ extracted.company = Some(W.ten \o W.kitta)

\* C23: the company of the record returned is None or a text that is not
\* empty.
C23_CompanyNeverEmpty ==
    parse_pc = "returned" => extracted.company # Some(<<>>)

\* C24: the record that the extractor returns has a person that is None
\* or an element of known_people, and a company only together with a
\* person; with no known people both are None, whatever the message.
C24_RecordWellFormed ==
    parse_pc = "returned" =>
        /\ extracted.person.some =>
              \E k \in 1..Len(known_people) :
                  known_people[k] = extracted.person.text
        /\ extracted.company.some => extracted.person.some
        /\ known_people = <<>> =>
              extracted.person = NoText /\ extracted.company = NoText

\* C24 witness: nobody is known; the sixth template matches the message
\* and nothing but the quantity is returned
C24_Witness ==
    /\ parse_pc = "returned"
    /\ known_people = <<>>
    /\ Search(text_msg, patterns[6]).ok
    /\ extracted = [person |-> NoText, company |-> NoText,
                    kitta |-> Some(W.ten)]

\* the person is returned as the list has it, not as the message has it
C24_WitnessKnownPerson ==
    /\ parse_pc = "returned"
    /\ \E p \in 1..Len(received) : received[p] = << "b", "a", "b", "x" >>
    /\ known_people # <<>>
    /\ extracted.person = Some(known_people[1])
    /\ extracted.company = Some(W.ax \o Space \o W.ten)

\* C25: a message request whose apply_ipo failed with the aggregate error
\* (every bank id tried, every attempt failed) was sent the "All bank
\* accounts failed" message as its only message.
C25_AllBanksFailedIsRecognised ==
    \A r \in Req :
        (pc[r] = "done" /\ entry[r] = "telegram" /\ AllBanksFailed(r)) =>
            sent[r] = << "all_banks_failed" >>

\* C26: at every entry point, the payloads of a RESERVED issue (with a demat
\* and a share id to key the lookup) are built after the reserved lookup
\* for that issue was made.
C26_ReservedLookupAtEveryEntry ==
    \A r \in Req :
        (/\ pc[r] \in {"loop", "submit"}
         /\ IsReserved(r)
         /\ Truthy(user_details[r].demat)
         /\ selected_issue[r].companyShareId # 0) =>
            reserved_response[r] # NoResponse

\* the calls that need the token
TokenCalls == {"issues", "own_details", "bank_ids", "reserved", "account", "submit"}

\* the login of the request did not succeed: it raised, or it returned no
\* token
LoginFailed(r) == login_response[r] # <<>> /\ LastLogin(r) # "bearer"

\* C27: a request whose login did not succeed (rejected, expired, failed in
\* transport, or answered without a token) has sent no listing, detail
\* fetch or submission, whatever token an earlier request left behind;
\* every such call of a request carries the token of its own person.
C27_NoCallWithoutLogin ==
    \A r \in Req :
        /\ LoginFailed(r) => ~HasCall(r, TokenCalls)
        /\ \A k \in 1..Len(calls[r]) :
              calls[r][k].op \in TokenCalls =>
                  /\ login_response[r] # <<>>
                  /\ calls[r][k].auth = TokenOf(user_row[r].name)

\* C27 witness: the login of kaka failed while the token of nene, left by
\* an earlier request, was in the process; the request ended with the
\* login as its only call
C27_Witness ==
    \E r \in Req :
        /\ pc[r] = "done"
        /\ user_row[r].name = "kaka"
        /\ LoginFailed(r)
        /\ cdsc_token = TokenOf("nene")
        /\ calls[r] # <<>>
        /\ \A k \in 1..Len(calls[r]) : calls[r][k].op = "login"

\* the login was answered without a token: the token of the earlier
\* request is gone and the request ended with the login as its only call
C27_WitnessNoToken ==
    \E r \in Req :
        /\ pc[r] = "done"
        /\ login_response[r] = << "no_header" >>
        /\ cdsc_token = None
        /\ Len(calls[r]) = 1

\* the request is in the loop over the issues of a /apply endpoint, or past it
InBulkLoop(r) == entry[r] \in {"post", "get"} /\ applicable_issues[r] # <<>>

\* the issues noted so far, as applied or as failed
Noted(r) == Len(applied_issues[r]) + Len(failed_issues[r])

\* the invocations of apply_ipo so far: each begins with the own-details
\* call of api.py:547, and the handler has made one such call before
Invocations(r) ==
    Len(SelectSeq(calls[r], LAMBDA c : c.op = "own_details")) - 1

\* how many entries of the list carry the scrip
Scrips(list, scrip) ==
    Cardinality({ k \in 1..Len(list) : list[k].scrip = scrip })

\* C28: in the loop of a /apply endpoint over a non-empty list of issues,
\* apply_ipo is invoked once for each issue in the order of the list,
\* whether the issues before it were applied or failed; every issue gone
\* through is in exactly one of applied_issues and failed_issues, and at
\* the end the two lists together are as long as the list of issues.
C28_EveryIssueOnce ==
    \A r \in Req :
        InBulkLoop(r) =>
            /\ issue_idx[r] \in 1..Len(applicable_issues[r])
            /\ selected_issue[r] = applicable_issues[r][issue_idx[r]]
            /\ pc[r] = "apply" =>
                  Noted(r) = issue_idx[r] - 1 /\ Invocations(r) = issue_idx[r] - 1
            /\ pc[r] \in {"banks", "reserved", "loop", "submit", "next"} =>
                  Noted(r) = issue_idx[r] - 1 /\ Invocations(r) = issue_idx[r]
            /\ pc[r] = "done" =>
                  /\ Noted(r) = Len(applicable_issues[r])
                  /\ Invocations(r) = Len(applicable_issues[r])
            /\ \A issue \in IssuePool :
                  Scrips(applied_issues[r], issue.scrip)
                      + Scrips(failed_issues[r], issue.scrip)
                  = Scrips(SubSeq(applicable_issues[r], 1, Noted(r)), issue.scrip)

\* C28 witness: two issues, the first failed and the second was applied
C28_Witness ==
    \E r \in Req :
        /\ pc[r] = "done"
        /\ applicable_issues[r] = << IssueAB, IssueX >>
        /\ Len(failed_issues[r]) = 1
        /\ failed_issues[r][1].scrip = IssueAB.scrip
        /\ Len(applied_issues[r]) = 1
        /\ applied_issues[r][1].scrip = IssueX.scrip

\* the statuses of the records that process_telegram_message returns
Statuses == {"success", "warning", "error"}

\* C29: process_telegram_message sends nothing before its last step; it
\* ends with exactly one notification sent and a status record returned,
\* whether the Telegram API delivered the notification or not.
C29_OneNotificationThenStatus ==
    \A r \in Req :
        entry[r] = "telegram" =>
            /\ pc[r] # "done" => sent[r] = <<>> /\ result[r] = None
            /\ pc[r] = "done" => Len(sent[r]) = 1 /\ result[r] \in Statuses

\* C29 witness: the application went through, the Telegram API timed out
\* on the success message, and the handler returned its status
C29_Witness ==
    \E r \in Req :
        /\ pc[r] = "done"
        /\ telegram = "timeout"
        /\ sent[r] = << "success" >>
        /\ result[r] = "success"

\* the same for a request that failed at the login
C29_WitnessFailure ==
    \E r \in Req :
        /\ pc[r] = "done"
        /\ telegram = "http_error"
        /\ sent[r] = << "auth_failed" >>
        /\ result[r] = "error"

\* C30: every call of fetch_floorsheet_data_with_retry makes at most
\* max_retries attempts, and its sleeps are 2 seconds after the first
\* failed attempt and 4 seconds after the second, whatever the calls
\* before it went through.
C30_SameBackoffEveryCall ==
    /\ fetch_attempt + 1 <= fetcher_max_retries
    /\ IsPrefix(waits, << 2, 4 >>)

====
